---- MODULE Spec2Model ----
(***************************************************************************)
(* A model of the mock NVML library (pkg/gpu/mocknvml): the process-wide   *)
(* reference-counted session (nvml_init.c), the handle codec and the       *)
(* fixture table (data/devices.h) and the exported query operations        *)
(* (nvml_device.c, nvml_memory.c, nvml_mig.c, nvml_system.c, nvml_stubs.c).*)
(*                                                                         *)
(* Two views of the library are modelled over the same counter:            *)
(*   Spec / SpecThreads : threads stepping through nvmlInit_v2,            *)
(*       nvmlShutdown and a gated query, one step per statement, with the  *)
(*       mutex g_init_mutex and the load and store of g_nvml_ref_count++   *)
(*       as separate steps;                                                *)
(*   SpecApi : one caller making whole calls with arguments drawn from     *)
(*       small sets; the last call (operation, arguments, caller memory    *)
(*       before and after, return code) is kept in the variable call.      *)
(***************************************************************************)
EXTENDS Integers, Sequences, FiniteSets, TLC

VARIABLES
    g_nvml_ref_count,   \* nvml_init.c:25  static int g_nvml_ref_count
    g_init_mutex,       \* nvml_init.c:26  0 = unlocked, else the holding thread
    pc,                 \* per thread: the statement it is about to execute
    reg,                \* per thread: the register of g_nvml_ref_count++ / --
                        \* (0 again once the call has returned)
    initialized,        \* per thread: the local of nvml_is_initialized
                        \* (FALSE again once the query has returned)
    ret,                \* per thread: the return code of its last finished call
    ncalls,             \* per thread: calls started so far
    nInit,              \* history of the threads: init calls that have returned
    nShutOk,            \* history of the threads: shutdown calls that returned
                        \* NVML_SUCCESS
    call,               \* SpecApi: the last whole call made by the caller
    past_the_array      \* SpecApi: what a read that runs off the end of
                        \* mock_devices[i].pci_bus_id finds there

vars == <<g_nvml_ref_count, g_init_mutex, pc, reg, initialized, ret, ncalls,
          nInit, nShutOk, call, past_the_array>>

threadVars == <<g_init_mutex, pc, reg, initialized, ret, ncalls>>

-----------------------------------------------------------------------------
(* Bounds of the model *)

\* number of threads calling into the library
NumThreads == 2

\* calls one thread makes under Spec
MaxCalls == 3

\* iterations of (init; query; shutdown) one thread runs under SpecThreads
Iterations == 2

\* the caller of SpecApi holds at most this many outstanding inits
MaxRefCount == 2

Threads == 1..NumThreads

-----------------------------------------------------------------------------
(* nvmlReturn_t, bridge/nvml_types.h *)

NVML_SUCCESS == 0
NVML_ERROR_UNINITIALIZED == 1
NVML_ERROR_INVALID_ARGUMENT == 2
NVML_ERROR_NOT_SUPPORTED == 3
NVML_ERROR_NOT_FOUND == 6
NVML_ERROR_INSUFFICIENT_SIZE == 7
NVML_ERROR_TIMEOUT == 10

\* no call has returned yet (not a value of nvmlReturn_t)
NoReturn == 0 - 1

-----------------------------------------------------------------------------
(* The session, statement by statement (nvml_init.c) *)

Goto(t, label) == pc' = [pc EXCEPT ![t] = label]

MutexFree_NoLock(t) == TRUE

\* pthread_mutex_lock blocks until the mutex is free
MutexFree(t) == g_init_mutex = 0

pthread_mutex_lock(t, next) ==
    /\ MutexFree(t)
    /\ g_init_mutex' = t
    /\ Goto(t, next)

pthread_mutex_unlock(t, next) ==
    /\ g_init_mutex' = 0
    /\ Goto(t, next)

\* a thread that is between calls starts one
StartCall(t, label) ==
    /\ pc[t] = "idle"
    /\ pc' = [pc EXCEPT ![t] = label]
    /\ ncalls' = [ncalls EXCEPT ![t] = @ + 1]
    /\ UNCHANGED <<g_nvml_ref_count, g_init_mutex, reg, initialized, ret,
                   nInit, nShutOk, call, past_the_array>>

\* nvmlInit_v2, line 33
init_lock(t) ==
    /\ pc[t] = "init_lock"
    /\ pthread_mutex_lock(t, "init_load")
    /\ UNCHANGED <<g_nvml_ref_count, reg, initialized, ret, ncalls,
                   nInit, nShutOk, call, past_the_array>>

\* nvmlInit_v2, line 34: g_nvml_ref_count++ reads the counter ...
init_load(t) ==
    /\ pc[t] = "init_load"
    /\ reg' = [reg EXCEPT ![t] = g_nvml_ref_count]
    /\ Goto(t, "init_store")
    /\ UNCHANGED <<g_nvml_ref_count, g_init_mutex, initialized, ret, ncalls,
                   nInit, nShutOk, call, past_the_array>>

\* ... and writes it back, one higher
init_store(t) ==
    /\ pc[t] = "init_store"
    /\ g_nvml_ref_count' = reg[t] + 1
    /\ Goto(t, "init_unlock")
    /\ UNCHANGED <<g_init_mutex, reg, initialized, ret, ncalls,
                   nInit, nShutOk, call, past_the_array>>

\* nvmlInit_v2, lines 35-37
init_unlock(t) ==
    /\ pc[t] = "init_unlock"
    /\ pthread_mutex_unlock(t, "idle")
    /\ ret' = [ret EXCEPT ![t] = NVML_SUCCESS]
    /\ reg' = [reg EXCEPT ![t] = 0]
    /\ nInit' = nInit + 1
    /\ UNCHANGED <<g_nvml_ref_count, initialized, ncalls, nShutOk, call, past_the_array>>

\* nvmlShutdown, line 51
shutdown_lock(t) ==
    /\ pc[t] = "shutdown_lock"
    /\ pthread_mutex_lock(t, "shutdown_check")
    /\ UNCHANGED <<g_nvml_ref_count, reg, initialized, ret, ncalls,
                   nInit, nShutOk, call, past_the_array>>

ShutdownRefused_Negative(count) == count < 0

\* nvmlShutdown, line 53: the condition of the early return
ShutdownRefused(count) == count <= 0

\* nvmlShutdown, lines 53-58: the check, and the read of g_nvml_ref_count--
shutdown_check(t) ==
    /\ pc[t] = "shutdown_check"
    /\ IF ShutdownRefused(g_nvml_ref_count)
         THEN /\ Goto(t, "shutdown_unlock_err")
              /\ reg' = reg
         ELSE /\ Goto(t, "shutdown_store")
              /\ reg' = [reg EXCEPT ![t] = g_nvml_ref_count]
    /\ UNCHANGED <<g_nvml_ref_count, g_init_mutex, initialized, ret, ncalls,
                   nInit, nShutOk, call, past_the_array>>

\* a variant that returns from the early exit with the mutex still locked
shutdown_unlock_err_KeepsLock(t) ==
    /\ pc[t] = "shutdown_unlock_err"
    /\ Goto(t, "idle")
    /\ ret' = [ret EXCEPT ![t] = NVML_ERROR_UNINITIALIZED]
    /\ UNCHANGED <<g_nvml_ref_count, g_init_mutex, reg, initialized, ncalls, nInit, nShutOk, call, past_the_array>>

\* nvmlShutdown, lines 54-55
shutdown_unlock_err(t) ==
    /\ pc[t] = "shutdown_unlock_err"
    /\ pthread_mutex_unlock(t, "idle")
    /\ ret' = [ret EXCEPT ![t] = NVML_ERROR_UNINITIALIZED]
    /\ UNCHANGED <<g_nvml_ref_count, reg, initialized, ncalls, nInit, nShutOk, call, past_the_array>>

\* nvmlShutdown, line 58: the write of g_nvml_ref_count--
shutdown_store(t) ==
    /\ pc[t] = "shutdown_store"
    /\ g_nvml_ref_count' = reg[t] - 1
    /\ Goto(t, "shutdown_unlock")
    /\ UNCHANGED <<g_init_mutex, reg, initialized, ret, ncalls,
                   nInit, nShutOk, call, past_the_array>>

\* nvmlShutdown, lines 59-61
shutdown_unlock(t) ==
    /\ pc[t] = "shutdown_unlock"
    /\ pthread_mutex_unlock(t, "idle")
    /\ ret' = [ret EXCEPT ![t] = NVML_SUCCESS]
    /\ reg' = [reg EXCEPT ![t] = 0]
    /\ nShutOk' = nShutOk + 1
    /\ UNCHANGED <<g_nvml_ref_count, initialized, ncalls, nInit, call, past_the_array>>

\* nvml_is_initialized, line 124 (called from nvmlDeviceGetCount_v2, line 30)
query_lock(t) ==
    /\ pc[t] = "query_lock"
    /\ pthread_mutex_lock(t, "query_read")
    /\ UNCHANGED <<g_nvml_ref_count, reg, initialized, ret, ncalls,
                   nInit, nShutOk, call, past_the_array>>

\* nvml_is_initialized, line 125
query_read(t) ==
    /\ pc[t] = "query_read"
    /\ initialized' = [initialized EXCEPT ![t] = (g_nvml_ref_count > 0)]
    /\ Goto(t, "query_unlock")
    /\ UNCHANGED <<g_nvml_ref_count, g_init_mutex, reg, ret, ncalls,
                   nInit, nShutOk, call, past_the_array>>

\* nvml_is_initialized, lines 126-127
query_unlock(t) ==
    /\ pc[t] = "query_unlock"
    /\ pthread_mutex_unlock(t, "query_body")
    /\ UNCHANGED <<g_nvml_ref_count, reg, initialized, ret, ncalls,
                   nInit, nShutOk, call, past_the_array>>

\* a variant whose body reads the counter again instead of using what
\* nvml_is_initialized returned
query_body_Rechecks(t) ==
    /\ pc[t] = "query_body"
    /\ ret' = [ret EXCEPT ![t] = IF g_nvml_ref_count > 0 THEN NVML_SUCCESS
                                  ELSE NVML_ERROR_UNINITIALIZED]
    /\ initialized' = [initialized EXCEPT ![t] = FALSE]
    /\ Goto(t, "idle")
    /\ UNCHANGED <<g_nvml_ref_count, g_init_mutex, reg, ncalls,
                   nInit, nShutOk, call, past_the_array>>

\* nvmlDeviceGetCount_v2, lines 30-39, with a non-null deviceCount
query_body(t) ==
    /\ pc[t] = "query_body"
    /\ ret' = [ret EXCEPT ![t] = IF initialized[t] THEN NVML_SUCCESS
                                  ELSE NVML_ERROR_UNINITIALIZED]
    /\ initialized' = [initialized EXCEPT ![t] = FALSE]
    /\ Goto(t, "idle")
    /\ UNCHANGED <<g_nvml_ref_count, g_init_mutex, reg, ncalls,
                   nInit, nShutOk, call, past_the_array>>

\* one statement of a call in progress
Step(t) ==
    \/ init_lock(t) \/ init_load(t) \/ init_store(t) \/ init_unlock(t)
    \/ shutdown_lock(t) \/ shutdown_check(t) \/ shutdown_unlock_err(t)
    \/ shutdown_store(t) \/ shutdown_unlock(t)
    \/ query_lock(t) \/ query_read(t) \/ query_unlock(t) \/ query_body(t)

NoCall == [op |-> "none", gate |-> 0, ret |-> NoReturn]

InitThreads ==
    /\ g_nvml_ref_count = 0
    /\ g_init_mutex = 0
    /\ pc = [t \in Threads |-> "idle"]
    /\ reg = [t \in Threads |-> 0]
    /\ initialized = [t \in Threads |-> FALSE]
    /\ ret = [t \in Threads |-> NoReturn]
    /\ ncalls = [t \in Threads |-> 0]
    /\ nInit = 0
    /\ nShutOk = 0
    /\ call = NoCall

\* the threads of Spec and SpecThreads make no call that reads pci_bus_id
Init ==
    /\ InitThreads
    /\ past_the_array = "pci_bus_id_legacy"

(* Spec: every thread makes any MaxCalls calls, in any order *)

CallInit(t) == ncalls[t] < MaxCalls /\ StartCall(t, "init_lock")

CallShutdown(t) == ncalls[t] < MaxCalls /\ StartCall(t, "shutdown_lock")

CallQuery(t) == ncalls[t] < MaxCalls /\ StartCall(t, "query_lock")

Next ==
    \E t \in Threads :
        \/ CallInit(t)
        \/ CallShutdown(t)
        \/ CallQuery(t)
        \/ Step(t)

Spec == Init /\ [][Next]_vars

\* Spec with the scheduler's guarantee: a thread inside a call that can
\* execute its next statement (pthread_mutex_lock: while the mutex is free)
\* is not left waiting forever.  A caller need not start a further call.
SpecFair == Spec /\ \A t \in Threads : WF_vars(Step(t))

(* SpecThreads: thread_init_shutdown of test_nvml_comprehensive.c, lines   *)
(* 327-348: Iterations rounds of nvmlInit; nvmlDeviceGetCount;             *)
(* nvmlShutdown, and test_thread_safety's one further nvmlShutdown by      *)
(* thread 1 after all threads have finished.                               *)

LoopInit(t) ==
    /\ ncalls[t] < 3 * Iterations
    /\ ncalls[t] % 3 = 0
    /\ StartCall(t, "init_lock")

LoopQuery(t) ==
    /\ ncalls[t] < 3 * Iterations
    /\ ncalls[t] % 3 = 1
    /\ StartCall(t, "query_lock")

LoopShutdown(t) ==
    /\ ncalls[t] < 3 * Iterations
    /\ ncalls[t] % 3 = 2
    /\ StartCall(t, "shutdown_lock")

AllJoined == \A t \in Threads : pc[t] = "idle" /\ ncalls[t] >= 3 * Iterations

FinalShutdown ==
    /\ AllJoined
    /\ ncalls[1] = 3 * Iterations
    /\ StartCall(1, "shutdown_lock")

NextThreads ==
    \/ \E t \in Threads : LoopInit(t) \/ LoopQuery(t) \/ LoopShutdown(t) \/ Step(t)
    \/ FinalShutdown

SpecThreads == Init /\ [][NextThreads]_vars

-----------------------------------------------------------------------------
(* The fixture table and the handle codec (data/devices.h) *)

(* Number representation.  An unsigned int is 32 bits wide and is held as the
   integer with the same bits in two's complement: a value below 2^31 as
   itself, (unsigned)-1 as -1.  Sums wrap as the bits do ((unsigned)-1 + 1 is
   0); an order comparison of unsigned values goes through ULess.  A 64-bit
   value (uintptr_t, unsigned long long) is the pair of its upper and its
   lower 32 bits: U64(10, 0) is 10 * 2^32 = 42949672960. *)

\* a < b for two unsigned int
ULess(a, b) == IF (a < 0) = (b < 0) THEN a < b ELSE b < 0

\* the 64-bit value hi * 2^32 + lo
U64(hi, lo) == [hi |-> hi, lo |-> lo]

\* a < b for two 64-bit unsigned values
ULess64(a, b) == IF a.hi = b.hi THEN ULess(a.lo, b.lo) ELSE ULess(a.hi, b.hi)

\* a + b for two unsigned long long whose lower words sum below 2^31
Add64(a, b) == U64(a.hi + b.hi, a.lo + b.lo)

\* nvml_device.c:38 (and the loop bounds and array size that repeat it)
DeviceCount == 8

\* sizeof pci_bus_id[] (devices.h:29) and of nvmlPciInfo_t.busIdLegacy
NVML_DEVICE_PCI_BUS_ID_BUFFER_V2_SIZE == 16

\* sizeof nvmlPciInfo_t.busId, and of pci_bus_id_legacy[] (devices.h:30)
NVML_DEVICE_PCI_BUS_ID_BUFFER_SIZE == 32

\* nvmlBrandType_t, bridge/nvml_types.h:75
NVML_BRAND_TESLA == 2

\* one initializer of mock_devices[]; every field the initializers give the
\* same value in all eight entries is written here once
A100(uuid, bus_id, bus_id_legacy, serial, bus, minor, temperature, cc_major, cc_minor) ==
    [ uuid |-> uuid,
      name |-> "NVIDIA A100-SXM4-40GB",
      pci_bus_id |-> bus_id,
      pci_bus_id_legacy |-> bus_id_legacy,
      serial |-> serial,
      pci_domain |-> 0,
      pci_bus |-> bus,
      pci_device |-> 0,
      pci_device_id |-> 548409566,      \* 0x20B010DE
      pci_subsystem_id |-> 323948766,   \* 0x134F10DE
      memory_total |-> U64(10, 0),      \* 42949672960ULL, 40 GiB
      memory_free |-> U64(10, 0),
      memory_used |-> U64(0, 0),
      minor_number |-> minor,
      brand |-> NVML_BRAND_TESLA,
      persistence_mode |-> 1,
      display_mode |-> 0,
      display_active |-> 0,
      temperature |-> temperature,
      power_usage |-> 100000,
      power_limit |-> 400000,
      clock_graphics |-> 1410,
      clock_sm |-> 1410,
      clock_memory |-> 1593,
      cuda_compute_capability_major |-> cc_major,
      cuda_compute_capability_minor |-> cc_minor ]

\* static const mock_device_info_t mock_devices[8]. Entries 0 and 7 have no
\* initializer for the compute capability, which a static object zeroes.
mock_devices ==
    [ i \in 0..7 |->
        CASE i = 0 -> A100("GPU-4404041a-04cf-1ccf-9e70-f139a9b1e23c",
                           "00000000:00:00.0", "0000:00:00.0", "1563221000001", 0, 0, 30, 0, 0)
          [] i = 1 -> A100("GPU-b8ea3855-276c-c9cb-b366-c6fa655957c5",
                           "00000000:01:00.0", "0000:01:00.0", "1563221000002", 1, 1, 31, 8, 0)
          [] i = 2 -> A100("GPU-36da4373-4344-3b36-9951-6c7af0e8d7a0",
                           "00000000:02:00.0", "0000:02:00.0", "1563221000003", 2, 2, 32, 8, 0)
          [] i = 3 -> A100("GPU-3dc6c589-3bea-2eb8-263e-d7a5b2b3b1ba",
                           "00000000:03:00.0", "0000:03:00.0", "1563221000004", 3, 3, 33, 8, 0)
          [] i = 4 -> A100("GPU-7e8ad30b-b5d9-cd98-3fcf-9b3e4d2ba6a0",
                           "00000000:04:00.0", "0000:04:00.0", "1563221000005", 4, 4, 34, 8, 0)
          [] i = 5 -> A100("GPU-e81b08cb-3aa9-4add-d834-1d3f537ea20f",
                           "00000000:05:00.0", "0000:05:00.0", "1563221000006", 5, 5, 35, 8, 0)
          [] i = 6 -> A100("GPU-eca0e2dd-3d99-2271-10fd-1939fec48d42",
                           "00000000:06:00.0", "0000:06:00.0", "1563221000007", 6, 6, 36, 8, 0)
          [] i = 7 -> A100("GPU-c9dea5de-06db-44ff-c80f-ce1d407e77ba",
                           "00000000:07:00.0", "0000:07:00.0", "1563221000008", 7, 7, 37, 0, 0) ]

\* What a char array member reads as when it is used as a C string (strcmp,
\* strlen, strncpy's source): its bytes up to the terminator. An initializer
\* that fills the array to its last byte leaves no terminator in it, and the
\* read runs on into the member laid out right after it.
CString(bytes, size, following) ==
    IF Len(bytes) < size THEN bytes ELSE bytes \o following

\* mock_devices[i].pci_bus_id read as a C string; pci_bus_id_legacy is the
\* next member of mock_device_info_t (devices.h:29-30)
pci_bus_id(i) ==
    CString(mock_devices[i].pci_bus_id, NVML_DEVICE_PCI_BUS_ID_BUFFER_V2_SIZE,
            IF past_the_array = "pci_bus_id_legacy"
            THEN mock_devices[i].pci_bus_id_legacy ELSE "")

\* mock_devices[i].pci_bus_id_legacy read as a C string
pci_bus_id_legacy(i) ==
    CString(mock_devices[i].pci_bus_id_legacy, NVML_DEVICE_PCI_BUS_ID_BUFFER_SIZE, "")

\* strncpy(dst, src, n); dst[n - 1] = '\0';  (n > 0)
strncpy_terminated(src, n) ==
    IF Len(src) < n THEN src ELSE SubSeq(src, 1, n - 1)

is_valid_device_index_UpTo(index) == ~ULess(8, index)

\* devices.h:298
is_valid_device_index(index) == ULess(index, 8)

\* a variant without the lower bound: NULL and 0 pass
is_valid_device_handle_NoLowerBound(handle) == ~ULess64(U64(0, 8), handle)

\* devices.h:302; a handle is the pointer's value as an uintptr_t, NULL is 0
is_valid_device_handle(handle) ==
    IF handle = U64(0, 0) THEN FALSE
    ELSE ~ULess64(handle, U64(0, 1)) /\ ~ULess64(U64(0, 8), handle)

\* (unsigned int)-1
InvalidIndex == 0 - 1

device_handle_to_index_Identity(handle) ==
    IF ~is_valid_device_handle(handle) THEN InvalidIndex
    ELSE handle.lo

\* devices.h:311; the cast keeps the lower 32 bits of handle - 1
device_handle_to_index(handle) ==
    IF ~is_valid_device_handle(handle) THEN InvalidIndex
    ELSE handle.lo - 1

\* a variant that takes the index itself as the handle
HandleOfIndex_ZeroBased(index) == U64(0, index)

\* (struct nvmlDevice_st*)(uintptr_t)(index + 1), index an unsigned int:
\* nvml_device.c:57
HandleOfIndex(index) == U64(0, index + 1)

-----------------------------------------------------------------------------
(* Whole calls, as one caller sees them *)

nvml_is_initialized_NonNegative == g_nvml_ref_count >= 0

\* nvml_is_initialized, nvml_init.c:122, run without interruption
nvml_is_initialized == g_nvml_ref_count > 0

\* pointers: NULL, or the address of caller memory holding mem
NULL == [null |-> TRUE, mem |-> 0]
Ptr(mem) == [null |-> FALSE, mem |-> mem]

\* what caller memory holds before the library has written it
Garbage == 0 - 559

\* a return statement: the code returned, the check that decided it
\* ("session", "null", "handle", "domain", "size", or "body" when every check
\* passed) and the caller's memory as it is left
Return(code, by, out) == [ret |-> code, by |-> by, out |-> out]

(* nvml_device.c *)

\* nvml_device.c:29
nvmlDeviceGetCount_v2(deviceCount) ==
    IF ~nvml_is_initialized THEN
        Return(NVML_ERROR_UNINITIALIZED, "session", deviceCount.mem)
    ELSE IF deviceCount.null THEN
        Return(NVML_ERROR_INVALID_ARGUMENT, "null", deviceCount.mem)
    ELSE Return(NVML_SUCCESS, "body", DeviceCount)

\* nvml_device.c:43
nvmlDeviceGetHandleByIndex_v2(index, device) ==
    IF ~nvml_is_initialized THEN
        Return(NVML_ERROR_UNINITIALIZED, "session", device.mem)
    ELSE IF device.null THEN
        Return(NVML_ERROR_INVALID_ARGUMENT, "null", device.mem)
    ELSE IF ~is_valid_device_index(index) THEN
        Return(NVML_ERROR_INVALID_ARGUMENT, "domain", device.mem)
    ELSE Return(NVML_SUCCESS, "body", HandleOfIndex(index))

\* the loop of nvml_device.c:73-78 from i on: the first index whose uuid
\* compares equal, or 8 when the loop runs out
RECURSIVE FindByUUID(_, _)
FindByUUID(uuid, i) ==
    IF ~(i < 8) THEN 8
    ELSE IF uuid = mock_devices[i].uuid THEN i
    ELSE FindByUUID(uuid, i + 1)

\* nvml_device.c:63
nvmlDeviceGetHandleByUUID(uuid, device) ==
    IF ~nvml_is_initialized THEN
        Return(NVML_ERROR_UNINITIALIZED, "session", device.mem)
    ELSE IF uuid.null \/ device.null THEN
        Return(NVML_ERROR_INVALID_ARGUMENT, "null", device.mem)
    ELSE LET i == FindByUUID(uuid.mem, 0) IN
        IF i < 8 THEN Return(NVML_SUCCESS, "body", HandleOfIndex(i))
        ELSE Return(NVML_ERROR_NOT_FOUND, "body", device.mem)

\* nvml_device.c:95-96: the two strcmp of one round of the loop
PciBusIdMatches(pciBusId, i) ==
    \/ pciBusId = pci_bus_id(i)
    \/ pciBusId = pci_bus_id_legacy(i)

\* the loop of nvml_device.c:94-100 from i on
RECURSIVE FindByPciBusId(_, _)
FindByPciBusId(pciBusId, i) ==
    IF ~(i < 8) THEN 8
    ELSE IF PciBusIdMatches(pciBusId, i) THEN i
    ELSE FindByPciBusId(pciBusId, i + 1)

\* nvml_device.c:84
nvmlDeviceGetHandleByPciBusId_v2(pciBusId, device) ==
    IF ~nvml_is_initialized THEN
        Return(NVML_ERROR_UNINITIALIZED, "session", device.mem)
    ELSE IF pciBusId.null \/ device.null THEN
        Return(NVML_ERROR_INVALID_ARGUMENT, "null", device.mem)
    ELSE LET i == FindByPciBusId(pciBusId.mem, 0) IN
        IF i < 8 THEN Return(NVML_SUCCESS, "body", HandleOfIndex(i))
        ELSE Return(NVML_ERROR_NOT_FOUND, "body", device.mem)

\* CopyString with a size check that leaves the terminator out of account
CopyString_NoTerminator(value, buffer, length) ==
    IF length < Len(value) THEN
        Return(NVML_ERROR_INSUFFICIENT_SIZE, "size", buffer.mem)
    ELSE Return(NVML_SUCCESS, "body", strncpy_terminated(value, length))

\* the tail shared by the string getters, e.g. nvml_device.c:122-129
CopyString(value, buffer, length) ==
    IF length < Len(value) + 1 THEN
        Return(NVML_ERROR_INSUFFICIENT_SIZE, "size", buffer.mem)
    ELSE Return(NVML_SUCCESS, "body", strncpy_terminated(value, length))

\* nvml_device.c:106
nvmlDeviceGetName(device, name, length) ==
    IF ~nvml_is_initialized THEN
        Return(NVML_ERROR_UNINITIALIZED, "session", name.mem)
    ELSE IF name.null \/ length = 0 THEN
        Return(NVML_ERROR_INVALID_ARGUMENT, "null", name.mem)
    ELSE IF device_handle_to_index(device) = InvalidIndex THEN
        Return(NVML_ERROR_INVALID_ARGUMENT, "handle", name.mem)
    ELSE CopyString(mock_devices[device_handle_to_index(device)].name, name, length)

\* nvml_device.c:133
nvmlDeviceGetUUID(device, uuid, length) ==
    IF ~nvml_is_initialized THEN
        Return(NVML_ERROR_UNINITIALIZED, "session", uuid.mem)
    ELSE IF uuid.null \/ length = 0 THEN
        Return(NVML_ERROR_INVALID_ARGUMENT, "null", uuid.mem)
    ELSE IF device_handle_to_index(device) = InvalidIndex THEN
        Return(NVML_ERROR_INVALID_ARGUMENT, "handle", uuid.mem)
    ELSE CopyString(mock_devices[device_handle_to_index(device)].uuid, uuid, length)

\* nvml_device.c:160
nvmlDeviceGetPciInfo_v3(device, pci) ==
    IF ~nvml_is_initialized THEN
        Return(NVML_ERROR_UNINITIALIZED, "session", pci.mem)
    ELSE IF pci.null THEN
        Return(NVML_ERROR_INVALID_ARGUMENT, "null", pci.mem)
    ELSE IF device_handle_to_index(device) = InvalidIndex THEN
        Return(NVML_ERROR_INVALID_ARGUMENT, "handle", pci.mem)
    ELSE LET index == device_handle_to_index(device)
             dev == mock_devices[index] IN
        Return(NVML_SUCCESS, "body",
            [ domain |-> dev.pci_domain,
              bus |-> dev.pci_bus,
              device |-> dev.pci_device,
              pciDeviceId |-> dev.pci_device_id,
              pciSubSystemId |-> dev.pci_subsystem_id,
              busId |-> strncpy_terminated(pci_bus_id_legacy(index),
                                           NVML_DEVICE_PCI_BUS_ID_BUFFER_SIZE),
              busIdLegacy |-> strncpy_terminated(pci_bus_id_legacy(index),
                                           NVML_DEVICE_PCI_BUS_ID_BUFFER_V2_SIZE) ])

\* the getters of nvml_device.c and nvml_memory.c that check the session,
\* the output pointer and the handle, in this order, and then store one
\* value: e.g. nvml_device.c:193-208
GetScalar(device, out, value) ==
    IF ~nvml_is_initialized THEN
        Return(NVML_ERROR_UNINITIALIZED, "session", out.mem)
    ELSE IF out.null THEN
        Return(NVML_ERROR_INVALID_ARGUMENT, "null", out.mem)
    ELSE IF device_handle_to_index(device) = InvalidIndex THEN
        Return(NVML_ERROR_INVALID_ARGUMENT, "handle", out.mem)
    ELSE Return(NVML_SUCCESS, "body", value)

\* mock_devices[index] for the index of a handle; the entry is only read
\* after the handle has been checked
DeviceOf(device) ==
    mock_devices[IF is_valid_device_handle(device)
                 THEN device_handle_to_index(device) ELSE 0]

\* nvml_device.c:192
nvmlDeviceGetMinorNumber(device, minorNumber) ==
    GetScalar(device, minorNumber, DeviceOf(device).minor_number)

\* nvml_device.c:212
nvmlDeviceGetIndex(device, index) ==
    GetScalar(device, index, device_handle_to_index(device))

\* nvml_device.c:232
nvmlDeviceGetSerial(device, serial, length) ==
    IF ~nvml_is_initialized THEN
        Return(NVML_ERROR_UNINITIALIZED, "session", serial.mem)
    ELSE IF serial.null \/ length = 0 THEN
        Return(NVML_ERROR_INVALID_ARGUMENT, "null", serial.mem)
    ELSE IF device_handle_to_index(device) = InvalidIndex THEN
        Return(NVML_ERROR_INVALID_ARGUMENT, "handle", serial.mem)
    ELSE CopyString(mock_devices[device_handle_to_index(device)].serial, serial, length)

\* nvml_device.c:259
nvmlDeviceGetBrand(device, type) ==
    GetScalar(device, type, DeviceOf(device).brand)

\* nvml_device.c:279
nvmlDeviceGetPersistenceMode(device, mode) ==
    GetScalar(device, mode, DeviceOf(device).persistence_mode)

\* nvml_device.c:299
nvmlDeviceGetDisplayMode(device, display) ==
    GetScalar(device, display, DeviceOf(device).display_mode)

\* nvml_device.c:319
nvmlDeviceGetDisplayActive(device, isActive) ==
    GetScalar(device, isActive, DeviceOf(device).display_active)

\* nvml_device.c:339
nvmlDeviceGetBoardPartNumber(device, partNumber, length) ==
    IF ~nvml_is_initialized THEN
        Return(NVML_ERROR_UNINITIALIZED, "session", partNumber.mem)
    ELSE IF partNumber.null \/ length = 0 THEN
        Return(NVML_ERROR_INVALID_ARGUMENT, "null", partNumber.mem)
    ELSE IF device_handle_to_index(device) = InvalidIndex THEN
        Return(NVML_ERROR_INVALID_ARGUMENT, "handle", partNumber.mem)
    ELSE CopyString("699-21001-0000-000", partNumber, length)

\* nvml_device.c:366
nvmlDeviceGetAttributes_v2(device, attributes) ==
    GetScalar(device, attributes,
        [ multiprocessorCount |-> 108,
          sharedCopyEngineCount |-> 5,
          sharedDecoderCount |-> 0,
          sharedEncoderCount |-> 0,
          sharedJpegCount |-> 0,
          sharedOfaCount |-> 0,
          gpuInstanceSliceCount |-> 0,
          computeInstanceSliceCount |-> 0,
          memorySizeMB |-> 40960 ])

\* nvml_device.c:397
nvmlDeviceGetPciInfo_v2(device, pci) == nvmlDeviceGetPciInfo_v3(device, pci)

\* nvml_device.c:401
nvmlDeviceGetPciInfo(device, pci) == nvmlDeviceGetPciInfo_v3(device, pci)

\* nvml_device.c:406; both pointers share one test, major first. The outputs
\* are the pair <<*major, *minor>>.
nvmlDeviceGetCudaComputeCapability(device, major, minor) ==
    IF ~nvml_is_initialized THEN
        Return(NVML_ERROR_UNINITIALIZED, "session", <<major.mem, minor.mem>>)
    ELSE IF ~is_valid_device_handle(device) THEN
        Return(NVML_ERROR_INVALID_ARGUMENT, "handle", <<major.mem, minor.mem>>)
    ELSE IF major.null \/ minor.null THEN
        Return(NVML_ERROR_INVALID_ARGUMENT, "null", <<major.mem, minor.mem>>)
    ELSE LET idx == device_handle_to_index(device) IN
        Return(NVML_SUCCESS, "body",
               << mock_devices[idx].cuda_compute_capability_major,
                  mock_devices[idx].cuda_compute_capability_minor >>)

\* nvml_device.c:427
nvmlDeviceGetCount(deviceCount) == nvmlDeviceGetCount_v2(deviceCount)

\* nvml_device.c:431
nvmlDeviceGetHandleByIndex(index, device) ==
    nvmlDeviceGetHandleByIndex_v2(index, device)

\* nvml_device.c:435
nvmlDeviceGetHandleByPciBusId(pciBusId, device) ==
    nvmlDeviceGetHandleByPciBusId_v2(pciBusId, device)

(* nvml_memory.c *)

\* sizeof(nvmlMemory_v2_t): unsigned int, padding, four unsigned long long
\* (bridge/nvml_types.h:144-151)
SizeofMemory_v2 == 40

\* nvmlMemory_v2: NVML_STRUCT_VERSION(Memory, 2), the struct's size with the
\* version number 2 in the top byte
nvmlMemory_v2 == SizeofMemory_v2 + 2 * 16777216

\* nvml_memory.c:28
nvmlDeviceGetMemoryInfo(device, memory) ==
    IF ~nvml_is_initialized THEN
        Return(NVML_ERROR_UNINITIALIZED, "session", memory.mem)
    ELSE IF memory.null THEN
        Return(NVML_ERROR_INVALID_ARGUMENT, "null", memory.mem)
    ELSE IF device_handle_to_index(device) = InvalidIndex THEN
        Return(NVML_ERROR_INVALID_ARGUMENT, "handle", memory.mem)
    ELSE LET dev == mock_devices[device_handle_to_index(device)] IN
        Return(NVML_SUCCESS, "body",
            [ total |-> dev.memory_total,
              free |-> dev.memory_free,
              used |-> dev.memory_used ])

nvmlDeviceGetMemoryInfo_v2_KeepReserved(device, memory) ==
    IF ~nvml_is_initialized THEN
        Return(NVML_ERROR_UNINITIALIZED, "session", memory.mem)
    ELSE IF memory.null THEN
        Return(NVML_ERROR_INVALID_ARGUMENT, "null", memory.mem)
    ELSE IF memory.mem.version # nvmlMemory_v2 /\ memory.mem.version # 0 THEN
        Return(NVML_ERROR_INVALID_ARGUMENT, "domain", memory.mem)
    ELSE IF device_handle_to_index(device) = InvalidIndex THEN
        Return(NVML_ERROR_INVALID_ARGUMENT, "handle", memory.mem)
    ELSE LET dev == mock_devices[device_handle_to_index(device)] IN
        Return(NVML_SUCCESS, "body",
            [ version |-> nvmlMemory_v2,
              total |-> dev.memory_total,
              reserved |-> memory.mem.reserved,
              free |-> dev.memory_free,
              used |-> dev.memory_used ])

VersionAccepted_OnlyTag(version) == version = nvmlMemory_v2

\* nvml_memory.c:62, negated: the version tags the call goes on with
VersionAccepted(version) == ~(version # nvmlMemory_v2 /\ version # 0)

\* nvml_memory.c:52
nvmlDeviceGetMemoryInfo_v2(device, memory) ==
    IF ~nvml_is_initialized THEN
        Return(NVML_ERROR_UNINITIALIZED, "session", memory.mem)
    ELSE IF memory.null THEN
        Return(NVML_ERROR_INVALID_ARGUMENT, "null", memory.mem)
    ELSE IF ~VersionAccepted(memory.mem.version) THEN
        Return(NVML_ERROR_INVALID_ARGUMENT, "domain", memory.mem)
    ELSE IF device_handle_to_index(device) = InvalidIndex THEN
        Return(NVML_ERROR_INVALID_ARGUMENT, "handle", memory.mem)
    ELSE LET dev == mock_devices[device_handle_to_index(device)] IN
        Return(NVML_SUCCESS, "body",
            [ version |-> nvmlMemory_v2,
              total |-> dev.memory_total,
              reserved |-> U64(0, 0),
              free |-> dev.memory_free,
              used |-> dev.memory_used ])

\* nvml_memory.c:83
nvmlDeviceGetBAR1MemoryInfo(device, bar1Memory) ==
    GetScalar(device, bar1Memory,
        [ bar1Total |-> U64(16, 0),     \* 64ULL * 1024 * 1024 * 1024
          bar1Free |-> U64(16, 0),
          bar1Used |-> U64(0, 0) ])

nvmlDeviceGetTemperature_SensorFirst(device, sensorType, temp) ==
    IF ~nvml_is_initialized THEN
        Return(NVML_ERROR_UNINITIALIZED, "session", temp.mem)
    ELSE IF temp.null THEN
        Return(NVML_ERROR_INVALID_ARGUMENT, "null", temp.mem)
    ELSE IF sensorType # "NVML_TEMPERATURE_GPU" THEN
        Return(NVML_ERROR_NOT_SUPPORTED, "domain", temp.mem)
    ELSE IF device_handle_to_index(device) = InvalidIndex THEN
        Return(NVML_ERROR_INVALID_ARGUMENT, "handle", temp.mem)
    ELSE Return(NVML_SUCCESS, "body",
                mock_devices[device_handle_to_index(device)].temperature)

\* nvml_memory.c:106
nvmlDeviceGetTemperature(device, sensorType, temp) ==
    IF ~nvml_is_initialized THEN
        Return(NVML_ERROR_UNINITIALIZED, "session", temp.mem)
    ELSE IF temp.null THEN
        Return(NVML_ERROR_INVALID_ARGUMENT, "null", temp.mem)
    ELSE IF device_handle_to_index(device) = InvalidIndex THEN
        Return(NVML_ERROR_INVALID_ARGUMENT, "handle", temp.mem)
    ELSE IF sensorType # "NVML_TEMPERATURE_GPU" THEN
        Return(NVML_ERROR_NOT_SUPPORTED, "domain", temp.mem)
    ELSE Return(NVML_SUCCESS, "body",
                mock_devices[device_handle_to_index(device)].temperature)

\* nvml_memory.c:130
nvmlDeviceGetPowerUsage(device, power) ==
    GetScalar(device, power, DeviceOf(device).power_usage)

\* nvml_memory.c:150
nvmlDeviceGetEnforcedPowerLimit(device, limit) ==
    GetScalar(device, limit, DeviceOf(device).power_limit)

\* nvml_memory.c:170
nvmlDeviceGetTotalEnergyConsumption(device, energy) ==
    GetScalar(device, energy,
              U64(0, 1000000 * (device_handle_to_index(device) + 1)))

\* nvml_memory.c:191; clockId is not read
nvmlDeviceGetClock(device, clockType, clockId, clockMHz) ==
    IF ~nvml_is_initialized THEN
        Return(NVML_ERROR_UNINITIALIZED, "session", clockMHz.mem)
    ELSE IF clockMHz.null THEN
        Return(NVML_ERROR_INVALID_ARGUMENT, "null", clockMHz.mem)
    ELSE IF device_handle_to_index(device) = InvalidIndex THEN
        Return(NVML_ERROR_INVALID_ARGUMENT, "handle", clockMHz.mem)
    ELSE LET dev == mock_devices[device_handle_to_index(device)] IN
        CASE clockType = "NVML_CLOCK_GRAPHICS" ->
                Return(NVML_SUCCESS, "body", dev.clock_graphics)
          [] clockType = "NVML_CLOCK_SM" ->
                Return(NVML_SUCCESS, "body", dev.clock_sm)
          [] clockType = "NVML_CLOCK_MEM" ->
                Return(NVML_SUCCESS, "body", dev.clock_memory)
          [] OTHER ->
                Return(NVML_ERROR_NOT_SUPPORTED, "domain", clockMHz.mem)

\* nvml_memory.c:225
nvmlDeviceGetMaxClockInfo(device, type, clock) ==
    IF ~nvml_is_initialized THEN
        Return(NVML_ERROR_UNINITIALIZED, "session", clock.mem)
    ELSE IF clock.null THEN
        Return(NVML_ERROR_INVALID_ARGUMENT, "null", clock.mem)
    ELSE IF device_handle_to_index(device) = InvalidIndex THEN
        Return(NVML_ERROR_INVALID_ARGUMENT, "handle", clock.mem)
    ELSE
        CASE type \in {"NVML_CLOCK_GRAPHICS", "NVML_CLOCK_SM"} ->
                Return(NVML_SUCCESS, "body", 1410)
          [] type = "NVML_CLOCK_MEM" ->
                Return(NVML_SUCCESS, "body", 1593)
          [] OTHER ->
                Return(NVML_ERROR_NOT_SUPPORTED, "domain", clock.mem)

\* nvml_memory.c:256
nvmlDeviceGetClockInfo(device, type, clock) ==
    nvmlDeviceGetClock(device, type, "NVML_CLOCK_ID_CURRENT", clock)

(* nvml_mig.c *)

\* nvml_mig.c:27; the outputs are the pair <<*currentMode, *pendingMode>>
nvmlDeviceGetMigMode(device, currentMode, pendingMode) ==
    IF ~nvml_is_initialized THEN
        Return(NVML_ERROR_UNINITIALIZED, "session", <<currentMode.mem, pendingMode.mem>>)
    ELSE IF currentMode.null \/ pendingMode.null THEN
        Return(NVML_ERROR_INVALID_ARGUMENT, "null", <<currentMode.mem, pendingMode.mem>>)
    ELSE IF device_handle_to_index(device) = InvalidIndex THEN
        Return(NVML_ERROR_INVALID_ARGUMENT, "handle", <<currentMode.mem, pendingMode.mem>>)
    ELSE Return(NVML_ERROR_NOT_SUPPORTED, "body", <<currentMode.mem, pendingMode.mem>>)

\* nvmlDeviceGetMaxMigDeviceCount answering as the other MIG operations do
nvmlDeviceGetMaxMigDeviceCount_NotSupported(device, count) ==
    IF ~nvml_is_initialized THEN
        Return(NVML_ERROR_UNINITIALIZED, "session", count.mem)
    ELSE IF count.null THEN
        Return(NVML_ERROR_INVALID_ARGUMENT, "null", count.mem)
    ELSE IF device_handle_to_index(device) = InvalidIndex THEN
        Return(NVML_ERROR_INVALID_ARGUMENT, "handle", count.mem)
    ELSE Return(NVML_ERROR_NOT_SUPPORTED, "body", 0)

\* nvml_mig.c:46
nvmlDeviceGetMaxMigDeviceCount(device, count) ==
    GetScalar(device, count, 0)

\* nvml_mig.c:66; placements and profileId are not read; *count is written
\* before the error is returned
nvmlDeviceGetGpuInstancePossiblePlacements_v2(device, profileId, placements, count) ==
    IF ~nvml_is_initialized THEN
        Return(NVML_ERROR_UNINITIALIZED, "session", count.mem)
    ELSE IF count.null THEN
        Return(NVML_ERROR_INVALID_ARGUMENT, "null", count.mem)
    ELSE IF device_handle_to_index(device) = InvalidIndex THEN
        Return(NVML_ERROR_INVALID_ARGUMENT, "handle", count.mem)
    ELSE Return(NVML_ERROR_NOT_SUPPORTED, "body", 0)

\* nvml_mig.c:88
nvmlDeviceGetGpuInstances(device, profileId, instances, count) ==
    IF ~nvml_is_initialized THEN
        Return(NVML_ERROR_UNINITIALIZED, "session", count.mem)
    ELSE IF count.null THEN
        Return(NVML_ERROR_INVALID_ARGUMENT, "null", count.mem)
    ELSE IF device_handle_to_index(device) = InvalidIndex THEN
        Return(NVML_ERROR_INVALID_ARGUMENT, "handle", count.mem)
    ELSE Return(NVML_ERROR_NOT_SUPPORTED, "body", 0)

\* nvml_mig.c:109; gpuInstance is neither checked nor written
nvmlDeviceCreateGpuInstance(device, profileId, gpuInstance) ==
    IF ~nvml_is_initialized THEN
        Return(NVML_ERROR_UNINITIALIZED, "session", gpuInstance.mem)
    ELSE IF device_handle_to_index(device) = InvalidIndex THEN
        Return(NVML_ERROR_INVALID_ARGUMENT, "handle", gpuInstance.mem)
    ELSE Return(NVML_ERROR_NOT_SUPPORTED, "body", gpuInstance.mem)

\* nvml_mig.c:125; there is no caller memory
nvmlGpuInstanceDestroy(gpuInstance) ==
    IF ~nvml_is_initialized THEN
        Return(NVML_ERROR_UNINITIALIZED, "session", Garbage)
    ELSE Return(NVML_ERROR_NOT_SUPPORTED, "body", Garbage)

\* nvml_mig.c:135; info is neither checked nor written
nvmlComputeInstanceGetInfo_v2(computeInstance, info) ==
    IF ~nvml_is_initialized THEN
        Return(NVML_ERROR_UNINITIALIZED, "session", info.mem)
    ELSE Return(NVML_ERROR_NOT_SUPPORTED, "body", info.mem)

\* nvml_mig.c:146
nvmlDeviceGetGpuInstancePossiblePlacements(device, profileId, placements, count) ==
    nvmlDeviceGetGpuInstancePossiblePlacements_v2(device, profileId, placements, count)

\* nvml_mig.c:152
nvmlComputeInstanceGetInfo(computeInstance, info) ==
    nvmlComputeInstanceGetInfo_v2(computeInstance, info)

(* nvml_system.c *)

\* nvml_system.c:30
MOCK_DRIVER_VERSION == "550.54.15"

\* nvml_system.c:31
MOCK_NVML_VERSION == "12.550.54"

\* the system string getters, which have no handle: e.g. nvml_system.c:36-51
GetSystemString(value, buffer, length) ==
    IF ~nvml_is_initialized THEN
        Return(NVML_ERROR_UNINITIALIZED, "session", buffer.mem)
    ELSE IF buffer.null \/ length = 0 THEN
        Return(NVML_ERROR_INVALID_ARGUMENT, "null", buffer.mem)
    ELSE CopyString(value, buffer, length)

\* nvml_system.c:35
nvmlSystemGetDriverVersion(version, length) ==
    GetSystemString(MOCK_DRIVER_VERSION, version, length)

\* nvml_system.c:55
nvmlSystemGetNVMLVersion(version, length) ==
    GetSystemString(MOCK_NVML_VERSION, version, length)

\* nvml_system.c:75; MOCK_CUDA_DRIVER_VERSION is 12040 (nvml_system.c:32)
nvmlSystemGetCudaDriverVersion(cudaDriverVersion) ==
    IF ~nvml_is_initialized THEN
        Return(NVML_ERROR_UNINITIALIZED, "session", cudaDriverVersion.mem)
    ELSE IF cudaDriverVersion.null THEN
        Return(NVML_ERROR_INVALID_ARGUMENT, "null", cudaDriverVersion.mem)
    ELSE Return(NVML_SUCCESS, "body", 12040)

\* nvml_system.c:90
nvmlSystemGetCudaDriverVersion_v2(cudaDriverVersion) ==
    nvmlSystemGetCudaDriverVersion(cudaDriverVersion)

\* strrchr(exe_path, '/') and the step past it (nvml_system.c:115-120): the
\* part of the path after its last '/', the whole path if it has none
RECURSIVE AfterLastSlash(_, _)
AfterLastSlash(exe_path, i) ==
    IF i = 0 THEN exe_path
    ELSE IF SubSeq(exe_path, i, i) = "/" THEN SubSeq(exe_path, i + 1, Len(exe_path))
    ELSE AfterLastSlash(exe_path, i - 1)

\* nvml_system.c:95; exe_path is what readlink("/proc/<pid>/exe") stores, the
\* empty string when it fails or stores nothing (len <= 0)
nvmlSystemGetProcessName(exe_path, name, length) ==
    IF ~nvml_is_initialized THEN
        Return(NVML_ERROR_UNINITIALIZED, "session", name.mem)
    ELSE IF name.null \/ length = 0 THEN
        Return(NVML_ERROR_INVALID_ARGUMENT, "null", name.mem)
    ELSE IF Len(exe_path) > 0 THEN
        LET basename == AfterLastSlash(exe_path, Len(exe_path)) IN
        IF Len(basename) >= length THEN
            Return(NVML_ERROR_INSUFFICIENT_SIZE, "size", name.mem)
        ELSE Return(NVML_SUCCESS, "body", strncpy_terminated(basename, length))
    ELSE Return(NVML_ERROR_NOT_FOUND, "body", name.mem)

\* nvml_system.c:138; hwbcEntries is not read
nvmlSystemGetHicVersion(hwbcCount, hwbcEntries) ==
    IF ~nvml_is_initialized THEN
        Return(NVML_ERROR_UNINITIALIZED, "session", hwbcCount.mem)
    ELSE IF hwbcCount.null THEN
        Return(NVML_ERROR_INVALID_ARGUMENT, "null", hwbcCount.mem)
    ELSE Return(NVML_SUCCESS, "body", 0)

\* nvmlSystemGetTopologyGpuSet leaving *count alone when it is too small
nvmlSystemGetTopologyGpuSet_NoWriteBack(cpuNumber, count, deviceArray) ==
    IF ~nvml_is_initialized THEN
        Return(NVML_ERROR_UNINITIALIZED, "session", <<count.mem, deviceArray.mem>>)
    ELSE IF count.null THEN
        Return(NVML_ERROR_INVALID_ARGUMENT, "null", <<count.mem, deviceArray.mem>>)
    ELSE IF deviceArray.null THEN
        Return(NVML_SUCCESS, "body", <<8, deviceArray.mem>>)
    ELSE IF count.mem < 8 THEN
        Return(NVML_ERROR_INSUFFICIENT_SIZE, "size", <<count.mem, deviceArray.mem>>)
    ELSE Return(NVML_SUCCESS, "body",
            << 8, [k \in 1..Len(deviceArray.mem) |->
                      IF k <= 8 THEN HandleOfIndex(k - 1) ELSE deviceArray.mem[k]] >>)

\* nvml_system.c:152; the outputs are the pair <<*count, deviceArray[]>>
nvmlSystemGetTopologyGpuSet(cpuNumber, count, deviceArray) ==
    IF ~nvml_is_initialized THEN
        Return(NVML_ERROR_UNINITIALIZED, "session", <<count.mem, deviceArray.mem>>)
    ELSE IF count.null THEN
        Return(NVML_ERROR_INVALID_ARGUMENT, "null", <<count.mem, deviceArray.mem>>)
    ELSE IF deviceArray.null THEN
        Return(NVML_SUCCESS, "body", <<8, deviceArray.mem>>)
    ELSE IF count.mem < 8 THEN
        Return(NVML_ERROR_INSUFFICIENT_SIZE, "size", <<8, deviceArray.mem>>)
    ELSE Return(NVML_SUCCESS, "body",
            << 8, [k \in 1..Len(deviceArray.mem) |->
                      IF k <= 8 THEN HandleOfIndex(k - 1) ELSE deviceArray.mem[k]] >>)

\* nvml_system.c:182
nvmlSystemGetDriverBranch(branchInfo, length) ==
    GetSystemString("r550_00", branchInfo, length)

(* nvml_stubs.c *)

\* the running-process queries: nvml_stubs.c:28, 48, 68, 383, 403; infos is
\* not read
GetRunningProcesses(device, infoCount, infos) ==
    GetScalar(device, infoCount, 0)

\* nvml_stubs.c:28
nvmlDeviceGetComputeRunningProcesses_v3(device, infoCount, infos) ==
    GetRunningProcesses(device, infoCount, infos)

\* nvml_stubs.c:48
nvmlDeviceGetGraphicsRunningProcesses_v3(device, infoCount, infos) ==
    GetRunningProcesses(device, infoCount, infos)

\* nvml_stubs.c:68
nvmlDeviceGetMPSComputeRunningProcesses_v3(device, infoCount, infos) ==
    GetRunningProcesses(device, infoCount, infos)

\* nvml_stubs.c:383
nvmlDeviceGetComputeRunningProcesses(device, infoCount, infos) ==
    GetRunningProcesses(device, infoCount, infos)

\* nvml_stubs.c:403
nvmlDeviceGetComputeRunningProcesses_v2(device, infoCount, infos) ==
    GetRunningProcesses(device, infoCount, infos)

\* nvml_stubs.c:89
nvmlUnitGetCount(unitCount) ==
    IF ~nvml_is_initialized THEN
        Return(NVML_ERROR_UNINITIALIZED, "session", unitCount.mem)
    ELSE IF unitCount.null THEN
        Return(NVML_ERROR_INVALID_ARGUMENT, "null", unitCount.mem)
    ELSE Return(NVML_SUCCESS, "body", 0)

\* nvml_stubs.c:102; there are no units, so every index is out of range
nvmlUnitGetHandleByIndex(index, unit) ==
    IF ~nvml_is_initialized THEN
        Return(NVML_ERROR_UNINITIALIZED, "session", unit.mem)
    ELSE Return(NVML_ERROR_INVALID_ARGUMENT, "domain", unit.mem)

\* nvml_stubs.c:112; the handle is checked before the pointer
nvmlDeviceGetSupportedEventTypes(device, eventTypes) ==
    IF ~nvml_is_initialized THEN
        Return(NVML_ERROR_UNINITIALIZED, "session", eventTypes.mem)
    ELSE IF ~is_valid_device_handle(device) THEN
        Return(NVML_ERROR_INVALID_ARGUMENT, "handle", eventTypes.mem)
    ELSE IF eventTypes.null THEN
        Return(NVML_ERROR_INVALID_ARGUMENT, "null", eventTypes.mem)
    ELSE Return(NVML_SUCCESS, "body", U64(0, 0))

\* nvml_stubs.c:132; there is no caller memory
nvmlDeviceRegisterEvents(device, eventTypes, set) ==
    IF ~nvml_is_initialized THEN
        Return(NVML_ERROR_UNINITIALIZED, "session", Garbage)
    ELSE IF ~is_valid_device_handle(device) THEN
        Return(NVML_ERROR_INVALID_ARGUMENT, "handle", Garbage)
    ELSE IF eventTypes # U64(0, 0) THEN
        Return(NVML_ERROR_NOT_SUPPORTED, "domain", Garbage)
    ELSE Return(NVML_SUCCESS, "body", Garbage)

\* nvml_stubs.c:152; the dummy handle is 0xDEADBEEF, as 32 bits -559038737
nvmlEventSetCreate(set) ==
    IF ~nvml_is_initialized THEN
        Return(NVML_ERROR_UNINITIALIZED, "session", set.mem)
    ELSE IF set.null THEN
        Return(NVML_ERROR_INVALID_ARGUMENT, "null", set.mem)
    ELSE Return(NVML_SUCCESS, "body", U64(0, 0 - 559038737))

\* nvmlEventSetWait_v2 delivering an event when asked to wait
nvmlEventSetWait_v2_Delivers(set, data, timeoutms) ==
    IF ~nvml_is_initialized THEN
        Return(NVML_ERROR_UNINITIALIZED, "session", data.mem)
    ELSE IF data.null THEN
        Return(NVML_ERROR_INVALID_ARGUMENT, "null", data.mem)
    ELSE IF timeoutms > 0 THEN Return(NVML_SUCCESS, "body", 0)
    ELSE Return(NVML_ERROR_TIMEOUT, "body", data.mem)

\* nvml_stubs.c:167; set and timeoutms are not read
nvmlEventSetWait_v2(set, data, timeoutms) ==
    IF ~nvml_is_initialized THEN
        Return(NVML_ERROR_UNINITIALIZED, "session", data.mem)
    ELSE IF data.null THEN
        Return(NVML_ERROR_INVALID_ARGUMENT, "null", data.mem)
    ELSE Return(NVML_ERROR_TIMEOUT, "body", data.mem)

\* nvml_stubs.c:423
nvmlEventSetWait(set, data, timeoutms) ==
    nvmlEventSetWait_v2(set, data, timeoutms)

\* nvml_stubs.c:180
nvmlEventSetFree(set) ==
    IF ~nvml_is_initialized THEN
        Return(NVML_ERROR_UNINITIALIZED, "session", Garbage)
    ELSE Return(NVML_SUCCESS, "body", Garbage)

\* nvml_stubs.c:189
nvmlDeviceSetPersistenceMode(device, mode) ==
    IF ~nvml_is_initialized THEN
        Return(NVML_ERROR_UNINITIALIZED, "session", Garbage)
    ELSE IF device_handle_to_index(device) = InvalidIndex THEN
        Return(NVML_ERROR_INVALID_ARGUMENT, "handle", Garbage)
    ELSE IF mode # "NVML_FEATURE_DISABLED" /\ mode # "NVML_FEATURE_ENABLED" THEN
        Return(NVML_ERROR_INVALID_ARGUMENT, "domain", Garbage)
    ELSE Return(NVML_SUCCESS, "body", Garbage)

\* nvml_stubs.c:207; mode is not read
nvmlDeviceSetComputeMode(device, mode) ==
    IF ~nvml_is_initialized THEN
        Return(NVML_ERROR_UNINITIALIZED, "session", Garbage)
    ELSE IF device_handle_to_index(device) = InvalidIndex THEN
        Return(NVML_ERROR_INVALID_ARGUMENT, "handle", Garbage)
    ELSE Return(NVML_SUCCESS, "body", Garbage)

\* the A100 has 12 NVLink links: nvml_stubs.c:237 and 261
NvLinkCount == 12

\* nvmlDeviceGetNvLinkState with a link bound that lets link 12 through
nvmlDeviceGetNvLinkState_Inclusive(device, link, isActive) ==
    IF ~nvml_is_initialized THEN
        Return(NVML_ERROR_UNINITIALIZED, "session", isActive.mem)
    ELSE IF ~is_valid_device_handle(device) THEN
        Return(NVML_ERROR_INVALID_ARGUMENT, "handle", isActive.mem)
    ELSE IF isActive.null THEN
        Return(NVML_ERROR_INVALID_ARGUMENT, "null", isActive.mem)
    ELSE IF ULess(NvLinkCount, link) THEN
        Return(NVML_ERROR_INVALID_ARGUMENT, "domain", isActive.mem)
    ELSE Return(NVML_SUCCESS, "body", "NVML_FEATURE_ENABLED")

\* nvml_stubs.c:222; the handle is checked before the pointer
nvmlDeviceGetNvLinkState(device, link, isActive) ==
    IF ~nvml_is_initialized THEN
        Return(NVML_ERROR_UNINITIALIZED, "session", isActive.mem)
    ELSE IF ~is_valid_device_handle(device) THEN
        Return(NVML_ERROR_INVALID_ARGUMENT, "handle", isActive.mem)
    ELSE IF isActive.null THEN
        Return(NVML_ERROR_INVALID_ARGUMENT, "null", isActive.mem)
    ELSE IF ~ULess(link, NvLinkCount) THEN
        Return(NVML_ERROR_INVALID_ARGUMENT, "domain", isActive.mem)
    ELSE Return(NVML_SUCCESS, "body", "NVML_FEATURE_ENABLED")

\* a ring that moves on by one device per link, not per pair of links
remote_idx_PerLink(idx, link) == (idx + link + 1) % 8

\* nvml_stubs.c:269: the device at the far end of a link
remote_idx(idx, link) == (idx + (link \div 2) + 1) % 8

\* nvml_stubs.c:247; the handle is checked before the pointer
nvmlDeviceGetNvLinkRemotePciInfo_v2(device, link, pci) ==
    IF ~nvml_is_initialized THEN
        Return(NVML_ERROR_UNINITIALIZED, "session", pci.mem)
    ELSE IF ~is_valid_device_handle(device) THEN
        Return(NVML_ERROR_INVALID_ARGUMENT, "handle", pci.mem)
    ELSE IF pci.null THEN
        Return(NVML_ERROR_INVALID_ARGUMENT, "null", pci.mem)
    ELSE IF ~ULess(link, NvLinkCount) THEN
        Return(NVML_ERROR_INVALID_ARGUMENT, "domain", pci.mem)
    ELSE LET remote == remote_idx(device_handle_to_index(device), link)
             remote_device == mock_devices[remote] IN
        Return(NVML_SUCCESS, "body",
            [ domain |-> remote_device.pci_domain,
              bus |-> remote_device.pci_bus,
              device |-> remote_device.pci_device,
              pciDeviceId |-> remote_device.pci_device_id,
              pciSubSystemId |-> remote_device.pci_subsystem_id,
              busId |-> strncpy_terminated(pci_bus_id(remote),
                                           NVML_DEVICE_PCI_BUS_ID_BUFFER_SIZE),
              busIdLegacy |-> strncpy_terminated(pci_bus_id_legacy(remote),
                                           NVML_DEVICE_PCI_BUS_ID_BUFFER_V2_SIZE) ])

\* nvml_stubs.c:291
nvmlDeviceGetNvLinkRemotePciInfo(device, link, pci) ==
    nvmlDeviceGetNvLinkRemotePciInfo_v2(device, link, pci)

\* GetPairScalar validating the first handle only
GetPairScalar_FirstOnly(device1, device2, out, value) ==
    IF ~nvml_is_initialized THEN
        Return(NVML_ERROR_UNINITIALIZED, "session", out.mem)
    ELSE IF out.null THEN
        Return(NVML_ERROR_INVALID_ARGUMENT, "null", out.mem)
    ELSE IF device_handle_to_index(device1) = InvalidIndex THEN
        Return(NVML_ERROR_INVALID_ARGUMENT, "handle", out.mem)
    ELSE Return(NVML_SUCCESS, "body", value)

\* the two-handle topology queries, which store one fixed value:
\* nvml_stubs.c:298-315 and 361-378
GetPairScalar(device1, device2, out, value) ==
    IF ~nvml_is_initialized THEN
        Return(NVML_ERROR_UNINITIALIZED, "session", out.mem)
    ELSE IF out.null THEN
        Return(NVML_ERROR_INVALID_ARGUMENT, "null", out.mem)
    ELSE IF device_handle_to_index(device1) = InvalidIndex
            \/ device_handle_to_index(device2) = InvalidIndex THEN
        Return(NVML_ERROR_INVALID_ARGUMENT, "handle", out.mem)
    ELSE Return(NVML_SUCCESS, "body", value)

\* nvml_stubs.c:296
nvmlDeviceGetTopologyCommonAncestor(device1, device2, pathInfo) ==
    GetPairScalar(device1, device2, pathInfo, "NVML_TOPOLOGY_SYSTEM")

\* nvml_stubs.c:359; p2pIndex is not read
nvmlDeviceGetP2PStatus(device1, device2, p2pIndex, p2pStatus) ==
    GetPairScalar(device1, device2, p2pStatus, "NVML_P2P_STATUS_OK")

\* nvmlDeviceGetTopologyNearestGpus with a fill loop that does not skip the
\* device itself
nvmlDeviceGetTopologyNearestGpus_IncludesSelf(device, level, count, deviceArray) ==
    IF ~nvml_is_initialized THEN
        Return(NVML_ERROR_UNINITIALIZED, "session", <<count.mem, deviceArray.mem>>)
    ELSE IF count.null THEN
        Return(NVML_ERROR_INVALID_ARGUMENT, "null", <<count.mem, deviceArray.mem>>)
    ELSE IF device_handle_to_index(device) = InvalidIndex THEN
        Return(NVML_ERROR_INVALID_ARGUMENT, "handle", <<count.mem, deviceArray.mem>>)
    ELSE IF deviceArray.null THEN
        Return(NVML_SUCCESS, "body", <<7, deviceArray.mem>>)
    ELSE IF count.mem < 7 THEN
        Return(NVML_ERROR_INSUFFICIENT_SIZE, "size", <<7, deviceArray.mem>>)
    ELSE Return(NVML_SUCCESS, "body",
            << 7, [k \in 1..Len(deviceArray.mem) |->
                      IF k > 7 THEN deviceArray.mem[k]
                      ELSE HandleOfIndex(k - 1)] >>)

\* nvml_stubs.c:319; level is not read; the outputs are the pair
\* <<*count, deviceArray[]>>
nvmlDeviceGetTopologyNearestGpus(device, level, count, deviceArray) ==
    IF ~nvml_is_initialized THEN
        Return(NVML_ERROR_UNINITIALIZED, "session", <<count.mem, deviceArray.mem>>)
    ELSE IF count.null THEN
        Return(NVML_ERROR_INVALID_ARGUMENT, "null", <<count.mem, deviceArray.mem>>)
    ELSE IF device_handle_to_index(device) = InvalidIndex THEN
        Return(NVML_ERROR_INVALID_ARGUMENT, "handle", <<count.mem, deviceArray.mem>>)
    ELSE IF deviceArray.null THEN
        Return(NVML_SUCCESS, "body", <<7, deviceArray.mem>>)
    ELSE IF count.mem < 7 THEN
        Return(NVML_ERROR_INSUFFICIENT_SIZE, "size", <<7, deviceArray.mem>>)
    ELSE LET index == device_handle_to_index(device) IN
        Return(NVML_SUCCESS, "body",
            << 7, [k \in 1..Len(deviceArray.mem) |->
                      IF k > 7 THEN deviceArray.mem[k]
                      ELSE IF k - 1 < index THEN HandleOfIndex(k - 1)
                      ELSE HandleOfIndex(k)] >>)

(* nvml_init.c, as whole calls *)

\* nvmlErrorString consulting the session before it answers
nvmlErrorString_NeedsSession(result) ==
    IF nvml_is_initialized /\ result = 0 THEN "Success" ELSE "Unknown error"

\* nvml_init.c:65; the codes with a case of their own, each with its text
nvmlErrorString(result) ==
    CASE result = 0 -> "Success"
      [] result = 1 -> "NVML was not first initialized with nvmlInit()"
      [] result = 2 -> "A supplied argument is invalid"
      [] result = 3 -> "The requested operation is not available on target device"
      [] result = 4 -> "The current user does not have permission"
      [] result = 5 -> "Multiple initializations are now allowed"
      [] result = 6 -> "A query to find an object was unsuccessful"
      [] result = 7 -> "An input argument is not large enough"
      [] result = 8 -> "A device's external power cables are not properly attached"
      [] result = 9 -> "NVIDIA driver is not loaded"
      [] result = 10 -> "User provided timeout passed"
      [] result = 11 -> "NVIDIA Kernel detected an interrupt issue with a GPU"
      [] result = 12 -> "NVML Shared Library couldn't be found or loaded"
      [] result = 13 -> "Local version of NVML doesn't implement this function"
      [] result = 14 -> "infoROM is corrupted"
      [] result = 15 -> "The GPU has fallen off the bus or has otherwise become inaccessible"
      [] result = 16 -> "The GPU requires a reset before it can be used again"
      [] result = 17 -> "The GPU control device has been blocked by the operating system/cgroups"
      [] result = 18 -> "RM detects a driver/library version mismatch"
      [] result = 19 -> "An operation cannot be performed because the GPU is currently in use"
      [] result = 20 -> "Insufficient memory"
      [] result = 21 -> "No data"
      [] result = 22 -> "The requested vgpu operation is not available on target device"
      [] result = 23 -> "Ran out of critical resources, other than memory"
      [] OTHER -> "Unknown error"

-----------------------------------------------------------------------------
(* The caller of SpecApi: the arguments and the memory it passes *)

\* handle values as test_device_handle_validation passes them: null, the
\* eight handles, one past the last, a handle + 100, 0xFFFFFFFF, and two
\* values above 2^32 whose lower words are those of a handle and of null
Handles ==
    {U64(0, n) : n \in 0..9} \cup {U64(0, 101), U64(0, 0 - 1), U64(1, 1), U64(1, 0)}

\* index values: the eight indices, one and two past the last, (unsigned)-1
Indices == (0..9) \cup {0 - 1}

\* memory the caller has not initialized, by the type of the object, each
\* with the null pointer: one scalar; one 64-bit object (a handle, an
\* unsigned long long); a character buffer or an enum object; nvmlPciInfo_t;
\* nvmlDeviceAttributes_t; nvmlMemory_t; nvmlBAR1Memory_t
Uninitialized ==
    [ scalar |-> {NULL, Ptr(Garbage)},
      u64 |-> {NULL, Ptr(U64(Garbage, Garbage))},
      text |-> {NULL, Ptr("garbage")},
      pci |->
        { NULL,
          Ptr([ domain |-> Garbage, bus |-> Garbage, device |-> Garbage,
                pciDeviceId |-> Garbage, pciSubSystemId |-> Garbage,
                busId |-> "garbage", busIdLegacy |-> "garbage" ]) },
      attributes |->
        { NULL,
          Ptr([ multiprocessorCount |-> Garbage, sharedCopyEngineCount |-> Garbage,
                sharedDecoderCount |-> Garbage, sharedEncoderCount |-> Garbage,
                sharedJpegCount |-> Garbage, sharedOfaCount |-> Garbage,
                gpuInstanceSliceCount |-> Garbage,
                computeInstanceSliceCount |-> Garbage,
                memorySizeMB |-> Garbage ]) },
      memory |->
        { NULL,
          Ptr([ total |-> U64(Garbage, Garbage), free |-> U64(Garbage, Garbage),
                used |-> U64(Garbage, Garbage) ]) },
      bar1 |->
        { NULL,
          Ptr([ bar1Total |-> U64(Garbage, Garbage),
                bar1Free |-> U64(Garbage, Garbage),
                bar1Used |-> U64(Garbage, Garbage) ]) } ]

\* buffer lengths around the length of the value to be copied
Lengths(value) == {0, 1, Len(value), Len(value) + 1, 96}

\* version fields a caller may leave in nvmlMemory_v2_t: unset, the tag, the
\* bare version number, the tag of a struct one version on, a neighbour
Versions == {0, nvmlMemory_v2, 2, nvmlMemory_v2 + 16777216, nvmlMemory_v2 + 1}

\* the caller's nvmlMemory_v2_t, with one of those versions in it
Memory_v2Ptrs ==
    {NULL} \cup
    { Ptr([ version |-> v, total |-> U64(Garbage, Garbage),
            reserved |-> U64(Garbage, Garbage), free |-> U64(Garbage, Garbage),
            used |-> U64(Garbage, Garbage) ]) : v \in Versions }

\* the values the caller passes for the other arguments: in and out of the
\* domain of each; a GPU instance, compute instance or event set handle is
\* null or the dummy; exe_path is what readlink("/proc/<pid>/exe") gives,
\* nothing or the path of the image
Args ==
    [ sensorType |-> {"NVML_TEMPERATURE_GPU", "NVML_TEMPERATURE_COUNT"},
      clockType |-> {"NVML_CLOCK_GRAPHICS", "NVML_CLOCK_SM", "NVML_CLOCK_MEM",
                     "NVML_CLOCK_VIDEO"},
      clockId |-> {"NVML_CLOCK_ID_CURRENT"},
      profileId |-> {0},
      opaque |-> {U64(0, 0), U64(0, 0 - 559038737)},
      eventTypes |-> {U64(0, 0), U64(0, 1), U64(1, 0)},
      timeoutms |-> {0, 1000},
      enableState |-> {"NVML_FEATURE_DISABLED", "NVML_FEATURE_ENABLED",
                       "(nvmlEnableState_t)2"},
      computeMode |-> {"NVML_COMPUTEMODE_DEFAULT", "(nvmlComputeMode_t)99"},
      link |-> (0..13) \cup {0 - 1},
      p2pIndex |-> {"NVML_P2P_CAPS_INDEX_READ", "NVML_P2P_CAPS_INDEX_NVLINK"},
      level |-> {"NVML_TOPOLOGY_INTERNAL", "NVML_TOPOLOGY_SYSTEM"},
      cpuNumber |-> {0, 1},
      exe_path |-> {"", "/usr/bin/python3", "/sbin/init"},
      nameLength |-> {0, 1, 4, 5, 7, 8, 96},
      flags |-> {0, 1} ]

\* *count as the caller sets it before a two-phase call
CountPtrs == {NULL} \cup {Ptr(n) : n \in {0, 6, 7, 8, 9}}

\* the array of *count handles that goes with it, or no array
ArrayPtr(count, full) ==
    IF ~full THEN NULL
    ELSE Ptr([k \in 1..(IF count.null THEN 0 ELSE count.mem) |->
                 U64(Garbage, Garbage)])

\* the uuid argument of a lookup: null, the uuid of each device, no device's
UuidArgs ==
    {NULL, Ptr("GPU-00000000-0000-0000-0000-000000000000")}
    \cup {Ptr(mock_devices[i].uuid) : i \in 0..7}

\* the pciBusId argument of a lookup: null, each device's bus id in the
\* 8-digit-domain and in the 4-digit-domain form, no device's
PciBusIdArgs ==
    {NULL, Ptr("00000000:FF:00.0"), Ptr("0000:FF:00.0")}
    \cup {Ptr(mock_devices[i].pci_bus_id) : i \in 0..7}
    \cup {Ptr(mock_devices[i].pci_bus_id_legacy) : i \in 0..7}

SupportedClocks == {"NVML_CLOCK_GRAPHICS", "NVML_CLOCK_SM", "NVML_CLOCK_MEM"}

\* which of a call's arguments are unacceptable, by the step of the
\* validation order that is to reject them: a required pointer is null (or a
\* string buffer has length 0), a handle denotes no device, a numeric or
\* version argument is outside its domain, a buffer is too small
Fails(null, handle, domain, size) ==
    [null |-> null, handle |-> handle, domain |-> domain, size |-> size]

BadHandle(device) == device \notin {U64(0, n) : n \in 1..DeviceCount}

TooSmall(value, length) == length # 0 /\ length < Len(value) + 1

-----------------------------------------------------------------------------
(* Whole calls *)

\* a variant in which a failed call ends the session
Invoke_ClearsSession(op, args, fail, pre, r) ==
    /\ call.op = "none"
    /\ call' = [ op |-> op, gate |-> g_nvml_ref_count, args |-> args,
                 fail |-> fail, pre |-> pre,
                 ret |-> r.ret, by |-> r.by, out |-> r.out ]
    /\ g_nvml_ref_count' = IF r.ret = NVML_SUCCESS THEN g_nvml_ref_count ELSE 0
    /\ UNCHANGED <<g_init_mutex, pc, reg, initialized, ret,
                   ncalls, nInit, nShutOk, past_the_array>>

\* one call of a gated operation by a caller that has no call outstanding:
\* r is what the operation returns and leaves in the caller's memory, pre is
\* what that memory held before
Invoke(op, args, fail, pre, r) ==
    /\ call.op = "none"
    /\ call' = [ op |-> op, gate |-> g_nvml_ref_count, args |-> args,
                 fail |-> fail, pre |-> pre,
                 ret |-> r.ret, by |-> r.by, out |-> r.out ]
    /\ UNCHANGED <<g_nvml_ref_count, g_init_mutex, pc, reg, initialized, ret,
                   ncalls, nInit, nShutOk, past_the_array>>

\* a call of nvmlInit_v2 (nvml_init.c:32), of nvmlInitWithFlags
\* (nvml_init.c:41) or of nvmlInit (nvml_init.c:131), run to its return
nvmlInit_v2(op) ==
    /\ call.op = "none"
    /\ g_nvml_ref_count < MaxRefCount
    /\ g_nvml_ref_count' = g_nvml_ref_count + 1
    /\ call' = [ op |-> op, gate |-> g_nvml_ref_count, args |-> <<>>,
                 fail |-> Fails(FALSE, FALSE, FALSE, FALSE), pre |-> Garbage,
                 ret |-> NVML_SUCCESS, by |-> "body", out |-> Garbage ]
    /\ UNCHANGED <<g_init_mutex, pc, reg, initialized, ret, ncalls, nInit,
                   nShutOk, past_the_array>>

\* nvml_init.c:41; flags is not read
nvmlInitWithFlags(flags) == nvmlInit_v2("nvmlInitWithFlags")

\* nvml_init.c:131
nvmlInit == nvmlInit_v2("nvmlInit")

\* a call of nvmlShutdown (nvml_init.c:50), run to its return
nvmlShutdown ==
    /\ call.op = "none"
    /\ g_nvml_ref_count' =
          IF ShutdownRefused(g_nvml_ref_count) THEN g_nvml_ref_count
          ELSE g_nvml_ref_count - 1
    /\ call' = [ op |-> "nvmlShutdown", gate |-> g_nvml_ref_count, args |-> <<>>,
                 fail |-> Fails(FALSE, FALSE, FALSE, FALSE), pre |-> Garbage,
                 ret |-> IF ShutdownRefused(g_nvml_ref_count)
                         THEN NVML_ERROR_UNINITIALIZED ELSE NVML_SUCCESS,
                 by |-> IF ShutdownRefused(g_nvml_ref_count) THEN "session" ELSE "body",
                 out |-> Garbage ]
    /\ UNCHANGED <<g_init_mutex, pc, reg, initialized, ret, ncalls, nInit,
                   nShutOk, past_the_array>>

\* result codes handed to nvmlErrorString: every code of nvmlReturn_t up to
\* 29 and one past, NVML_ERROR_UNKNOWN, the 999999 of test_error_strings, a
\* negative value
ResultCodes == (0..30) \cup {999, 999999, 0 - 1}

\* the exported operations of nvml_init.c
NextInit ==
    \/ nvmlInit_v2("nvmlInit_v2")
    \/ \E flags \in Args.flags : nvmlInitWithFlags(flags)
    \/ nvmlInit
    \/ nvmlShutdown
    \/ \E result \in ResultCodes :
          /\ call.op = "none"
          /\ call' = [ op |-> "nvmlErrorString", gate |-> g_nvml_ref_count,
                       args |-> [result |-> result],
                       fail |-> Fails(FALSE, FALSE, FALSE, FALSE),
                       pre |-> "garbage", ret |-> NVML_SUCCESS, by |-> "body",
                       out |-> nvmlErrorString(result) ]
          /\ UNCHANGED <<g_nvml_ref_count, g_init_mutex, pc, reg, initialized,
                         ret, ncalls, nInit, nShutOk, past_the_array>>

\* the exported operations of nvml_device.c
NextDevice ==
    \/ \E p \in Uninitialized.scalar :
          Invoke("nvmlDeviceGetCount_v2", [ptr |-> p],
              Fails(p.null, FALSE, FALSE, FALSE),
              p.mem,
              nvmlDeviceGetCount_v2(p))
    \/ \E p \in Uninitialized.scalar :
          Invoke("nvmlDeviceGetCount", [ptr |-> p],
              Fails(p.null, FALSE, FALSE, FALSE),
              p.mem,
              nvmlDeviceGetCount(p))
    \/ \E index \in Indices, p \in Uninitialized.u64 :
          Invoke("nvmlDeviceGetHandleByIndex_v2", [index |-> index, ptr |-> p],
              Fails(p.null, FALSE, index \notin 0..(DeviceCount - 1), FALSE),
              p.mem,
              nvmlDeviceGetHandleByIndex_v2(index, p))
    \/ \E index \in Indices, p \in Uninitialized.u64 :
          Invoke("nvmlDeviceGetHandleByIndex", [index |-> index, ptr |-> p],
              Fails(p.null, FALSE, index \notin 0..(DeviceCount - 1), FALSE),
              p.mem,
              nvmlDeviceGetHandleByIndex(index, p))
    \/ \E uuid \in UuidArgs, p \in Uninitialized.u64 :
          Invoke("nvmlDeviceGetHandleByUUID", [uuid |-> uuid, ptr |-> p],
              Fails(uuid.null \/ p.null, FALSE, FALSE, FALSE),
              p.mem,
              nvmlDeviceGetHandleByUUID(uuid, p))
    \/ \E pciBusId \in PciBusIdArgs, p \in Uninitialized.u64 :
          Invoke("nvmlDeviceGetHandleByPciBusId_v2", [pciBusId |-> pciBusId, ptr |-> p],
              Fails(pciBusId.null \/ p.null, FALSE, FALSE, FALSE),
              p.mem,
              nvmlDeviceGetHandleByPciBusId_v2(pciBusId, p))
    \/ \E pciBusId \in PciBusIdArgs, p \in Uninitialized.u64 :
          Invoke("nvmlDeviceGetHandleByPciBusId", [pciBusId |-> pciBusId, ptr |-> p],
              Fails(pciBusId.null \/ p.null, FALSE, FALSE, FALSE),
              p.mem,
              nvmlDeviceGetHandleByPciBusId(pciBusId, p))
    \/ \E device \in Handles, p \in Uninitialized.text : \E length \in Lengths(DeviceOf(device).name) :
          Invoke("nvmlDeviceGetName", [device |-> device, ptr |-> p, length |-> length],
              Fails(p.null \/ length = 0, BadHandle(device), FALSE, TooSmall(DeviceOf(device).name, length)),
              p.mem,
              nvmlDeviceGetName(device, p, length))
    \/ \E device \in Handles, p \in Uninitialized.text : \E length \in Lengths(DeviceOf(device).uuid) :
          Invoke("nvmlDeviceGetUUID", [device |-> device, ptr |-> p, length |-> length],
              Fails(p.null \/ length = 0, BadHandle(device), FALSE, TooSmall(DeviceOf(device).uuid, length)),
              p.mem,
              nvmlDeviceGetUUID(device, p, length))
    \/ \E device \in Handles, p \in Uninitialized.text : \E length \in Lengths(DeviceOf(device).serial) :
          Invoke("nvmlDeviceGetSerial", [device |-> device, ptr |-> p, length |-> length],
              Fails(p.null \/ length = 0, BadHandle(device), FALSE, TooSmall(DeviceOf(device).serial, length)),
              p.mem,
              nvmlDeviceGetSerial(device, p, length))
    \/ \E device \in Handles, p \in Uninitialized.text, length \in Lengths("699-21001-0000-000") :
          Invoke("nvmlDeviceGetBoardPartNumber", [device |-> device, ptr |-> p, length |-> length],
              Fails(p.null \/ length = 0, BadHandle(device), FALSE, TooSmall("699-21001-0000-000", length)),
              p.mem,
              nvmlDeviceGetBoardPartNumber(device, p, length))
    \/ \E device \in Handles, p \in Uninitialized.pci :
          Invoke("nvmlDeviceGetPciInfo_v3", [device |-> device, ptr |-> p],
              Fails(p.null, BadHandle(device), FALSE, FALSE),
              p.mem,
              nvmlDeviceGetPciInfo_v3(device, p))
    \/ \E device \in Handles, p \in Uninitialized.pci :
          Invoke("nvmlDeviceGetPciInfo_v2", [device |-> device, ptr |-> p],
              Fails(p.null, BadHandle(device), FALSE, FALSE),
              p.mem,
              nvmlDeviceGetPciInfo_v2(device, p))
    \/ \E device \in Handles, p \in Uninitialized.pci :
          Invoke("nvmlDeviceGetPciInfo", [device |-> device, ptr |-> p],
              Fails(p.null, BadHandle(device), FALSE, FALSE),
              p.mem,
              nvmlDeviceGetPciInfo(device, p))
    \/ \E device \in Handles, p \in Uninitialized.scalar :
          Invoke("nvmlDeviceGetMinorNumber", [device |-> device, ptr |-> p],
              Fails(p.null, BadHandle(device), FALSE, FALSE),
              p.mem,
              nvmlDeviceGetMinorNumber(device, p))
    \/ \E device \in Handles, p \in Uninitialized.scalar :
          Invoke("nvmlDeviceGetIndex", [device |-> device, ptr |-> p],
              Fails(p.null, BadHandle(device), FALSE, FALSE),
              p.mem,
              nvmlDeviceGetIndex(device, p))
    \/ \E device \in Handles, p \in Uninitialized.scalar :
          Invoke("nvmlDeviceGetBrand", [device |-> device, ptr |-> p],
              Fails(p.null, BadHandle(device), FALSE, FALSE),
              p.mem,
              nvmlDeviceGetBrand(device, p))
    \/ \E device \in Handles, p \in Uninitialized.scalar :
          Invoke("nvmlDeviceGetPersistenceMode", [device |-> device, ptr |-> p],
              Fails(p.null, BadHandle(device), FALSE, FALSE),
              p.mem,
              nvmlDeviceGetPersistenceMode(device, p))
    \/ \E device \in Handles, p \in Uninitialized.scalar :
          Invoke("nvmlDeviceGetDisplayMode", [device |-> device, ptr |-> p],
              Fails(p.null, BadHandle(device), FALSE, FALSE),
              p.mem,
              nvmlDeviceGetDisplayMode(device, p))
    \/ \E device \in Handles, p \in Uninitialized.scalar :
          Invoke("nvmlDeviceGetDisplayActive", [device |-> device, ptr |-> p],
              Fails(p.null, BadHandle(device), FALSE, FALSE),
              p.mem,
              nvmlDeviceGetDisplayActive(device, p))
    \/ \E device \in Handles, p \in Uninitialized.attributes :
          Invoke("nvmlDeviceGetAttributes_v2", [device |-> device, ptr |-> p],
              Fails(p.null, BadHandle(device), FALSE, FALSE),
              p.mem,
              nvmlDeviceGetAttributes_v2(device, p))
    \/ \E device \in Handles, major \in Uninitialized.scalar, minor \in Uninitialized.scalar :
          Invoke("nvmlDeviceGetCudaComputeCapability", [device |-> device, major |-> major, minor |-> minor],
              Fails(major.null \/ minor.null, BadHandle(device), FALSE, FALSE),
              <<major.mem, minor.mem>>,
              nvmlDeviceGetCudaComputeCapability(device, major, minor))

\* the exported operations of nvml_memory.c
NextMemory ==
    \/ \E device \in Handles, p \in Uninitialized.memory :
          Invoke("nvmlDeviceGetMemoryInfo", [device |-> device, ptr |-> p],
              Fails(p.null, BadHandle(device), FALSE, FALSE),
              p.mem,
              nvmlDeviceGetMemoryInfo(device, p))
    \/ \E device \in Handles, p \in Memory_v2Ptrs :
          Invoke("nvmlDeviceGetMemoryInfo_v2", [device |-> device, ptr |-> p],
              Fails(p.null, BadHandle(device), ~p.null /\ p.mem.version \notin {0, nvmlMemory_v2}, FALSE),
              p.mem,
              nvmlDeviceGetMemoryInfo_v2(device, p))
    \/ \E device \in Handles, p \in Uninitialized.bar1 :
          Invoke("nvmlDeviceGetBAR1MemoryInfo", [device |-> device, ptr |-> p],
              Fails(p.null, BadHandle(device), FALSE, FALSE),
              p.mem,
              nvmlDeviceGetBAR1MemoryInfo(device, p))
    \/ \E device \in Handles, sensorType \in Args.sensorType, p \in Uninitialized.scalar :
          Invoke("nvmlDeviceGetTemperature", [device |-> device, sensorType |-> sensorType, ptr |-> p],
              Fails(p.null, BadHandle(device), sensorType # "NVML_TEMPERATURE_GPU", FALSE),
              p.mem,
              nvmlDeviceGetTemperature(device, sensorType, p))
    \/ \E device \in Handles, p \in Uninitialized.scalar :
          Invoke("nvmlDeviceGetPowerUsage", [device |-> device, ptr |-> p],
              Fails(p.null, BadHandle(device), FALSE, FALSE),
              p.mem,
              nvmlDeviceGetPowerUsage(device, p))
    \/ \E device \in Handles, p \in Uninitialized.scalar :
          Invoke("nvmlDeviceGetEnforcedPowerLimit", [device |-> device, ptr |-> p],
              Fails(p.null, BadHandle(device), FALSE, FALSE),
              p.mem,
              nvmlDeviceGetEnforcedPowerLimit(device, p))
    \/ \E device \in Handles, p \in Uninitialized.u64 :
          Invoke("nvmlDeviceGetTotalEnergyConsumption", [device |-> device, ptr |-> p],
              Fails(p.null, BadHandle(device), FALSE, FALSE),
              p.mem,
              nvmlDeviceGetTotalEnergyConsumption(device, p))
    \/ \E device \in Handles, type \in Args.clockType, clockId \in Args.clockId, p \in Uninitialized.scalar :
          Invoke("nvmlDeviceGetClock", [device |-> device, type |-> type, clockId |-> clockId, ptr |-> p],
              Fails(p.null, BadHandle(device), type \notin SupportedClocks, FALSE),
              p.mem,
              nvmlDeviceGetClock(device, type, clockId, p))
    \/ \E device \in Handles, type \in Args.clockType, p \in Uninitialized.scalar :
          Invoke("nvmlDeviceGetMaxClockInfo", [device |-> device, type |-> type, ptr |-> p],
              Fails(p.null, BadHandle(device), type \notin SupportedClocks, FALSE),
              p.mem,
              nvmlDeviceGetMaxClockInfo(device, type, p))
    \/ \E device \in Handles, type \in Args.clockType, p \in Uninitialized.scalar :
          Invoke("nvmlDeviceGetClockInfo", [device |-> device, type |-> type, ptr |-> p],
              Fails(p.null, BadHandle(device), type \notin SupportedClocks, FALSE),
              p.mem,
              nvmlDeviceGetClockInfo(device, type, p))

\* the exported operations of nvml_mig.c
NextMig ==
    \/ \E device \in Handles, currentMode \in Uninitialized.scalar, pendingMode \in Uninitialized.scalar :
          Invoke("nvmlDeviceGetMigMode", [device |-> device, currentMode |-> currentMode, pendingMode |-> pendingMode],
              Fails(currentMode.null \/ pendingMode.null, BadHandle(device), FALSE, FALSE),
              <<currentMode.mem, pendingMode.mem>>,
              nvmlDeviceGetMigMode(device, currentMode, pendingMode))
    \/ \E device \in Handles, p \in Uninitialized.scalar :
          Invoke("nvmlDeviceGetMaxMigDeviceCount", [device |-> device, ptr |-> p],
              Fails(p.null, BadHandle(device), FALSE, FALSE),
              p.mem,
              nvmlDeviceGetMaxMigDeviceCount(device, p))
    \/ \E device \in Handles, profileId \in Args.profileId, placements \in Uninitialized.scalar, p \in Uninitialized.scalar :
          Invoke("nvmlDeviceGetGpuInstancePossiblePlacements_v2", [device |-> device, profileId |-> profileId, placements |-> placements, ptr |-> p],
              Fails(p.null, BadHandle(device), FALSE, FALSE),
              p.mem,
              nvmlDeviceGetGpuInstancePossiblePlacements_v2(device, profileId, placements, p))
    \/ \E device \in Handles, profileId \in Args.profileId, placements \in Uninitialized.scalar, p \in Uninitialized.scalar :
          Invoke("nvmlDeviceGetGpuInstancePossiblePlacements", [device |-> device, profileId |-> profileId, placements |-> placements, ptr |-> p],
              Fails(p.null, BadHandle(device), FALSE, FALSE),
              p.mem,
              nvmlDeviceGetGpuInstancePossiblePlacements(device, profileId, placements, p))
    \/ \E device \in Handles, profileId \in Args.profileId, instances \in Uninitialized.scalar, p \in Uninitialized.scalar :
          Invoke("nvmlDeviceGetGpuInstances", [device |-> device, profileId |-> profileId, instances |-> instances, ptr |-> p],
              Fails(p.null, BadHandle(device), FALSE, FALSE),
              p.mem,
              nvmlDeviceGetGpuInstances(device, profileId, instances, p))
    \/ \E device \in Handles, profileId \in Args.profileId, p \in Uninitialized.scalar :
          Invoke("nvmlDeviceCreateGpuInstance", [device |-> device, profileId |-> profileId, ptr |-> p],
              Fails(FALSE, BadHandle(device), FALSE, FALSE),
              p.mem,
              nvmlDeviceCreateGpuInstance(device, profileId, p))
    \/ \E gpuInstance \in Args.opaque :
          Invoke("nvmlGpuInstanceDestroy", [gpuInstance |-> gpuInstance],
              Fails(FALSE, FALSE, FALSE, FALSE),
              Garbage,
              nvmlGpuInstanceDestroy(gpuInstance))
    \/ \E computeInstance \in Args.opaque, p \in Uninitialized.scalar :
          Invoke("nvmlComputeInstanceGetInfo_v2", [computeInstance |-> computeInstance, ptr |-> p],
              Fails(FALSE, FALSE, FALSE, FALSE),
              p.mem,
              nvmlComputeInstanceGetInfo_v2(computeInstance, p))
    \/ \E computeInstance \in Args.opaque, p \in Uninitialized.scalar :
          Invoke("nvmlComputeInstanceGetInfo", [computeInstance |-> computeInstance, ptr |-> p],
              Fails(FALSE, FALSE, FALSE, FALSE),
              p.mem,
              nvmlComputeInstanceGetInfo(computeInstance, p))

\* the exported operations of nvml_system.c
NextSystem ==
    \/ \E p \in Uninitialized.text, length \in Lengths(MOCK_DRIVER_VERSION) :
          Invoke("nvmlSystemGetDriverVersion", [ptr |-> p, length |-> length],
              Fails(p.null \/ length = 0, FALSE, FALSE, TooSmall(MOCK_DRIVER_VERSION, length)),
              p.mem,
              nvmlSystemGetDriverVersion(p, length))
    \/ \E p \in Uninitialized.text, length \in Lengths(MOCK_NVML_VERSION) :
          Invoke("nvmlSystemGetNVMLVersion", [ptr |-> p, length |-> length],
              Fails(p.null \/ length = 0, FALSE, FALSE, TooSmall(MOCK_NVML_VERSION, length)),
              p.mem,
              nvmlSystemGetNVMLVersion(p, length))
    \/ \E p \in Uninitialized.text, length \in Lengths("r550_00") :
          Invoke("nvmlSystemGetDriverBranch", [ptr |-> p, length |-> length],
              Fails(p.null \/ length = 0, FALSE, FALSE, TooSmall("r550_00", length)),
              p.mem,
              nvmlSystemGetDriverBranch(p, length))
    \/ \E p \in Uninitialized.scalar :
          Invoke("nvmlSystemGetCudaDriverVersion", [ptr |-> p],
              Fails(p.null, FALSE, FALSE, FALSE),
              p.mem,
              nvmlSystemGetCudaDriverVersion(p))
    \/ \E p \in Uninitialized.scalar :
          Invoke("nvmlSystemGetCudaDriverVersion_v2", [ptr |-> p],
              Fails(p.null, FALSE, FALSE, FALSE),
              p.mem,
              nvmlSystemGetCudaDriverVersion_v2(p))
    \/ \E exe_path \in Args.exe_path, p \in Uninitialized.text, length \in Args.nameLength :
          Invoke("nvmlSystemGetProcessName", [exe_path |-> exe_path, ptr |-> p, length |-> length],
              Fails(p.null \/ length = 0, FALSE, FALSE,
                    Len(exe_path) > 0 /\ Len(AfterLastSlash(exe_path, Len(exe_path))) >= length),
              p.mem,
              nvmlSystemGetProcessName(exe_path, p, length))
    \/ \E p \in Uninitialized.scalar, hwbcEntries \in Uninitialized.scalar :
          Invoke("nvmlSystemGetHicVersion", [ptr |-> p, hwbcEntries |-> hwbcEntries],
              Fails(p.null, FALSE, FALSE, FALSE),
              p.mem,
              nvmlSystemGetHicVersion(p, hwbcEntries))
    \/ \E cpuNumber \in Args.cpuNumber, count \in CountPtrs, full \in BOOLEAN :
          Invoke("nvmlSystemGetTopologyGpuSet", [cpuNumber |-> cpuNumber, count |-> count, deviceArray |-> ArrayPtr(count, full)],
              Fails(count.null, FALSE, FALSE, ~count.null /\ full /\ count.mem < 8),
              <<count.mem, ArrayPtr(count, full).mem>>,
              nvmlSystemGetTopologyGpuSet(cpuNumber, count, ArrayPtr(count, full)))

\* the exported operations of nvml_stubs.c
NextStubs ==
    \/ \E device \in Handles, p \in Uninitialized.scalar, infos \in Uninitialized.scalar :
          Invoke("nvmlDeviceGetComputeRunningProcesses_v3", [device |-> device, ptr |-> p, infos |-> infos],
              Fails(p.null, BadHandle(device), FALSE, FALSE),
              p.mem,
              nvmlDeviceGetComputeRunningProcesses_v3(device, p, infos))
    \/ \E device \in Handles, p \in Uninitialized.scalar, infos \in Uninitialized.scalar :
          Invoke("nvmlDeviceGetGraphicsRunningProcesses_v3", [device |-> device, ptr |-> p, infos |-> infos],
              Fails(p.null, BadHandle(device), FALSE, FALSE),
              p.mem,
              nvmlDeviceGetGraphicsRunningProcesses_v3(device, p, infos))
    \/ \E device \in Handles, p \in Uninitialized.scalar, infos \in Uninitialized.scalar :
          Invoke("nvmlDeviceGetMPSComputeRunningProcesses_v3", [device |-> device, ptr |-> p, infos |-> infos],
              Fails(p.null, BadHandle(device), FALSE, FALSE),
              p.mem,
              nvmlDeviceGetMPSComputeRunningProcesses_v3(device, p, infos))
    \/ \E device \in Handles, p \in Uninitialized.scalar, infos \in Uninitialized.scalar :
          Invoke("nvmlDeviceGetComputeRunningProcesses", [device |-> device, ptr |-> p, infos |-> infos],
              Fails(p.null, BadHandle(device), FALSE, FALSE),
              p.mem,
              nvmlDeviceGetComputeRunningProcesses(device, p, infos))
    \/ \E device \in Handles, p \in Uninitialized.scalar, infos \in Uninitialized.scalar :
          Invoke("nvmlDeviceGetComputeRunningProcesses_v2", [device |-> device, ptr |-> p, infos |-> infos],
              Fails(p.null, BadHandle(device), FALSE, FALSE),
              p.mem,
              nvmlDeviceGetComputeRunningProcesses_v2(device, p, infos))
    \/ \E p \in Uninitialized.scalar :
          Invoke("nvmlUnitGetCount", [ptr |-> p],
              Fails(p.null, FALSE, FALSE, FALSE),
              p.mem,
              nvmlUnitGetCount(p))
    \/ \E index \in Indices, p \in Uninitialized.scalar :
          Invoke("nvmlUnitGetHandleByIndex", [index |-> index, ptr |-> p],
              Fails(FALSE, FALSE, TRUE, FALSE),
              p.mem,
              nvmlUnitGetHandleByIndex(index, p))
    \/ \E device \in Handles, p \in Uninitialized.u64 :
          Invoke("nvmlDeviceGetSupportedEventTypes", [device |-> device, ptr |-> p],
              Fails(p.null, BadHandle(device), FALSE, FALSE),
              p.mem,
              nvmlDeviceGetSupportedEventTypes(device, p))
    \/ \E device \in Handles, eventTypes \in Args.eventTypes, set \in Args.opaque :
          Invoke("nvmlDeviceRegisterEvents", [device |-> device, eventTypes |-> eventTypes, set |-> set],
              Fails(FALSE, BadHandle(device), eventTypes # U64(0, 0), FALSE),
              Garbage,
              nvmlDeviceRegisterEvents(device, eventTypes, set))
    \/ \E p \in Uninitialized.u64 :
          Invoke("nvmlEventSetCreate", [ptr |-> p],
              Fails(p.null, FALSE, FALSE, FALSE),
              p.mem,
              nvmlEventSetCreate(p))
    \/ \E set \in Args.opaque, p \in Uninitialized.scalar, timeoutms \in Args.timeoutms :
          Invoke("nvmlEventSetWait_v2", [set |-> set, ptr |-> p, timeoutms |-> timeoutms],
              Fails(p.null, FALSE, FALSE, FALSE),
              p.mem,
              nvmlEventSetWait_v2(set, p, timeoutms))
    \/ \E set \in Args.opaque, p \in Uninitialized.scalar, timeoutms \in Args.timeoutms :
          Invoke("nvmlEventSetWait", [set |-> set, ptr |-> p, timeoutms |-> timeoutms],
              Fails(p.null, FALSE, FALSE, FALSE),
              p.mem,
              nvmlEventSetWait(set, p, timeoutms))
    \/ \E set \in Args.opaque :
          Invoke("nvmlEventSetFree", [set |-> set],
              Fails(FALSE, FALSE, FALSE, FALSE),
              Garbage,
              nvmlEventSetFree(set))
    \/ \E device \in Handles, mode \in Args.enableState :
          Invoke("nvmlDeviceSetPersistenceMode", [device |-> device, mode |-> mode],
              Fails(FALSE, BadHandle(device), mode \notin {"NVML_FEATURE_DISABLED", "NVML_FEATURE_ENABLED"}, FALSE),
              Garbage,
              nvmlDeviceSetPersistenceMode(device, mode))
    \/ \E device \in Handles, mode \in Args.computeMode :
          Invoke("nvmlDeviceSetComputeMode", [device |-> device, mode |-> mode],
              Fails(FALSE, BadHandle(device), FALSE, FALSE),
              Garbage,
              nvmlDeviceSetComputeMode(device, mode))
    \/ \E device \in Handles, link \in Args.link, p \in Uninitialized.text :
          Invoke("nvmlDeviceGetNvLinkState", [device |-> device, link |-> link, ptr |-> p],
              Fails(p.null, BadHandle(device), link \notin 0..11, FALSE),
              p.mem,
              nvmlDeviceGetNvLinkState(device, link, p))
    \/ \E device \in Handles, link \in Args.link, p \in Uninitialized.pci :
          Invoke("nvmlDeviceGetNvLinkRemotePciInfo_v2", [device |-> device, link |-> link, ptr |-> p],
              Fails(p.null, BadHandle(device), link \notin 0..11, FALSE),
              p.mem,
              nvmlDeviceGetNvLinkRemotePciInfo_v2(device, link, p))
    \/ \E device \in Handles, link \in Args.link, p \in Uninitialized.pci :
          Invoke("nvmlDeviceGetNvLinkRemotePciInfo", [device |-> device, link |-> link, ptr |-> p],
              Fails(p.null, BadHandle(device), link \notin 0..11, FALSE),
              p.mem,
              nvmlDeviceGetNvLinkRemotePciInfo(device, link, p))
    \/ \E device1 \in Handles, device2 \in Handles, p \in Uninitialized.text :
          Invoke("nvmlDeviceGetTopologyCommonAncestor", [device1 |-> device1, device2 |-> device2, ptr |-> p],
              Fails(p.null, BadHandle(device1) \/ BadHandle(device2), FALSE, FALSE),
              p.mem,
              nvmlDeviceGetTopologyCommonAncestor(device1, device2, p))
    \/ \E device1 \in Handles, device2 \in Handles, p2pIndex \in Args.p2pIndex, p \in Uninitialized.text :
          Invoke("nvmlDeviceGetP2PStatus", [device1 |-> device1, device2 |-> device2, p2pIndex |-> p2pIndex, ptr |-> p],
              Fails(p.null, BadHandle(device1) \/ BadHandle(device2), FALSE, FALSE),
              p.mem,
              nvmlDeviceGetP2PStatus(device1, device2, p2pIndex, p))
    \/ \E device \in Handles, level \in Args.level, count \in CountPtrs, full \in BOOLEAN :
          Invoke("nvmlDeviceGetTopologyNearestGpus", [device |-> device, level |-> level, count |-> count, deviceArray |-> ArrayPtr(count, full)],
              Fails(count.null, BadHandle(device), FALSE, ~count.null /\ full /\ count.mem < 7),
              <<count.mem, ArrayPtr(count, full).mem>>,
              nvmlDeviceGetTopologyNearestGpus(device, level, count, ArrayPtr(count, full)))

\* the caller has looked at the result of its call and goes on
TakeResult ==
    /\ call.op # "none"
    /\ call' = NoCall
    /\ UNCHANGED <<g_nvml_ref_count, g_init_mutex, pc, reg, initialized, ret,
                   ncalls, nInit, nShutOk, past_the_array>>

NextApi ==
    \/ TakeResult
    \/ NextInit
    \/ NextDevice
    \/ NextMemory
    \/ NextMig
    \/ NextSystem
    \/ NextStubs

\* the library as loaded, before any call; a read past the end of
\* mock_devices[i].pci_bus_id either runs on into the next member or stops
InitApi ==
    /\ InitThreads
    /\ past_the_array \in {"pci_bus_id_legacy", "nothing"}

SpecApi == InitApi /\ [][NextApi]_vars

-----------------------------------------------------------------------------
(* Claims about the session *)

Quiescent == \A t \in Threads : pc[t] = "idle"

\* init calls minus successful shutdown calls, among the calls that returned
NetAcquires == nInit - nShutOk

\* threads whose increment (decrement) is stored but whose call has not returned
StoredInits == Cardinality({t \in Threads : pc[t] = "init_unlock"})
StoredShutdowns == Cardinality({t \in Threads : pc[t] = "shutdown_unlock"})

C1_CounterIsNet ==
    /\ g_nvml_ref_count = NetAcquires + StoredInits - StoredShutdowns
    /\ Quiescent => g_nvml_ref_count = NetAcquires
    /\ \A t \in Threads :
          pc[t] = "query_unlock" => (initialized[t] <=> NetAcquires > 0)

C1_InitStep ==
    \A t \in Threads :
        /\ (pc[t] = "init_store" /\ pc'[t] = "init_unlock")
              => g_nvml_ref_count' = g_nvml_ref_count + 1
        /\ (pc[t] = "init_unlock" /\ pc'[t] = "idle")
              => ret'[t] = NVML_SUCCESS /\ g_nvml_ref_count' = g_nvml_ref_count
        /\ (pc[t] = "shutdown_store" /\ pc'[t] = "shutdown_unlock")
              => g_nvml_ref_count' = g_nvml_ref_count - 1
        /\ (pc[t] = "shutdown_unlock" /\ pc'[t] = "idle")
              => ret'[t] = NVML_SUCCESS /\ g_nvml_ref_count' = g_nvml_ref_count

\* C1: reference counting. In every reachable state the counter is the number
\* of init calls minus the number of shutdown calls that returned SUCCESS
\* (counting a call from the store of its increment or decrement); a gated
\* query reads "initialized" exactly when that net count is positive; every
\* init returns SUCCESS and raises the counter by exactly 1 and every
\* successful shutdown lowers it by exactly 1.
C1_ReferenceCounting == [] C1_CounterIsNet /\ [][C1_InitStep]_vars

\* three inits and three successful shutdowns have returned and the session
\* is Idle again
C1_Witness ==
    /\ Quiescent
    /\ nInit = 3
    /\ nShutOk = 3
    /\ g_nvml_ref_count = 0

C2_ShutdownStep ==
    \A t \in Threads :
        /\ (pc[t] = "shutdown_check" /\ pc'[t] # "shutdown_check"
                /\ g_nvml_ref_count = 0)
              => pc'[t] = "shutdown_unlock_err"
        /\ (pc[t] = "shutdown_unlock_err" /\ pc'[t] = "idle")
              => /\ ret'[t] = NVML_ERROR_UNINITIALIZED
                 /\ g_nvml_ref_count = 0
                 /\ g_nvml_ref_count' = 0
                 /\ nShutOk' = nShutOk

\* C2: the counter is never negative, whatever the interleaving; a shutdown
\* that finds the counter at 0 returns UNINITIALIZED and leaves it at 0.
C2_NeverNegative == [] (g_nvml_ref_count >= 0) /\ [][C2_ShutdownStep]_vars

\* a shutdown is on its error path with the counter at 0 although an init and
\* a successful shutdown have happened before
C2_Witness ==
    /\ \E t \in Threads : pc[t] = "shutdown_unlock_err"
    /\ g_nvml_ref_count = 0
    /\ nInit >= 1
    /\ nShutOk >= 1

\* C3: no lost updates. When every thread runs Iterations rounds of
\* (nvmlInit; gated query; nvmlShutdown), every call of every round returns
\* SUCCESS; once all threads have finished the counter is 0 and the one
\* further nvmlShutdown returns UNINITIALIZED; whenever no call is in
\* progress the counter is the net number of outstanding acquires.
C3_NoLostUpdates ==
    /\ \A t \in Threads :
          ncalls[t] <= 3 * Iterations => ret[t] \in {NoReturn, NVML_SUCCESS}
    /\ AllJoined => g_nvml_ref_count = 0
    /\ (pc[1] = "idle" /\ ncalls[1] = 3 * Iterations + 1)
          => ret[1] = NVML_ERROR_UNINITIALIZED /\ g_nvml_ref_count = 0
    /\ Quiescent => g_nvml_ref_count = NetAcquires

\* all threads have finished their rounds and the further shutdown has
\* returned UNINITIALIZED
C3_Witness ==
    /\ AllJoined
    /\ ncalls[1] = 3 * Iterations + 1
    /\ ret[1] = NVML_ERROR_UNINITIALIZED
    /\ nInit = NumThreads * Iterations
    /\ nShutOk = NumThreads * Iterations

-----------------------------------------------------------------------------
(* Claims about whole calls (SpecApi) *)

\* the last call was one of the operations behind the session gate: every
\* exported operation but the three inits, nvmlShutdown and nvmlErrorString
GatedCall ==
    call.op \notin {"none", "nvmlInit_v2", "nvmlInitWithFlags", "nvmlInit",
                    "nvmlShutdown", "nvmlErrorString"}

\* the devices' handles
ValidHandles == {U64(0, n) : n \in 1..8}

\* C4: a gated operation called while the counter is 0 returns UNINITIALIZED,
\* whatever its other arguments are (null pointers, invalid handles,
\* out-of-range index or link, zero-length buffers, bad version tags), and
\* leaves the caller's memory as it was.
C4_SessionGateFirst ==
    (GatedCall /\ call.gate = 0) =>
        /\ call.ret = NVML_ERROR_UNINITIALIZED
        /\ call.by = "session"
        /\ call.out = call.pre

\* C4 happens: a link-state query with a null pointer, an invalid handle and
\* a link out of range, made with the counter at 0, returned UNINITIALIZED
C4_Witness ==
    /\ call.op = "nvmlDeviceGetNvLinkState"
    /\ call.gate = 0
    /\ call.fail.null /\ call.fail.handle /\ call.fail.domain
    /\ call.ret = NVML_ERROR_UNINITIALIZED

\* the step that decides a call when the checks run in the order session,
\* null pointer, handle, domain, size
FirstFailing(c) ==
    IF c.gate = 0 THEN "session"
    ELSE IF c.fail.null THEN "null"
    ELSE IF c.fail.handle THEN "handle"
    ELSE IF c.fail.domain THEN "domain"
    ELSE IF c.fail.size THEN "size"
    ELSE "body"

HandleBeforeNull ==
    {"nvmlDeviceGetCudaComputeCapability", "nvmlDeviceGetSupportedEventTypes",
     "nvmlDeviceGetNvLinkState", "nvmlDeviceGetNvLinkRemotePciInfo_v2",
     "nvmlDeviceGetNvLinkRemotePciInfo"}

\* the step that decides a call of operation c.op
DecidingStep(c) ==
    IF c.op \in HandleBeforeNull THEN
        IF c.gate = 0 THEN "session"
        ELSE IF c.fail.handle THEN "handle"
        ELSE IF c.fail.null THEN "null"
        ELSE IF c.fail.domain THEN "domain"
        ELSE "body"
    ELSE IF c.op = "nvmlDeviceGetMemoryInfo_v2" THEN
        IF c.gate = 0 THEN "session"
        ELSE IF c.fail.null THEN "null"
        ELSE IF c.fail.domain THEN "domain"
        ELSE IF c.fail.handle THEN "handle"
        ELSE "body"
    ELSE FirstFailing(c)

C6_HandleCodecRoundTrip ==
    /\ \A i \in 0..7 :
          /\ HandleOfIndex(i) = U64(0, i + 1)
          /\ HandleOfIndex(i) # U64(0, 0)
          /\ device_handle_to_index(HandleOfIndex(i)) = i
    /\ \A h \in Handles \ ValidHandles :
          device_handle_to_index(h) = InvalidIndex
    /\ ~is_valid_device_index(InvalidIndex)
    /\ \A h1, h2 \in ValidHandles :
          device_handle_to_index(h1) = device_handle_to_index(h2) => h1 = h2
    /\ (call.op = "nvmlDeviceGetHandleByIndex_v2" /\ call.ret = NVML_SUCCESS) =>
          /\ call.out = U64(0, call.args.index + 1)
          /\ device_handle_to_index(call.out) = call.args.index
    /\ (call.op = "nvmlDeviceGetIndex" /\ call.gate > 0 /\ ~call.fail.null) =>
          IF call.args.device \in ValidHandles
          THEN /\ call.ret = NVML_SUCCESS
               /\ HandleOfIndex(call.out) = call.args.device
          ELSE /\ call.ret = NVML_ERROR_INVALID_ARGUMENT
               /\ call.out = call.pre

\* C6 happens: the handle 2^32 + 1, whose lower 32 bits are those of the
\* first device's handle, was decoded and refused
C6_Witness ==
    /\ call.op = "nvmlDeviceGetIndex"
    /\ call.gate > 0
    /\ call.args.device = U64(1, 1)
    /\ ~call.fail.null
    /\ call.ret = NVML_ERROR_INVALID_ARGUMENT

\* C7: with a session, nvmlDeviceGetCount returns 8 whatever inits and
\* shutdowns came before; nvmlDeviceGetHandleByIndex(i) succeeds exactly for
\* i < 8 and returns INVALID_ARGUMENT for i >= 8; and for the handle it
\* writes, nvmlDeviceGetIndex and nvmlDeviceGetMinorNumber both give i.
C7_EnumerationConsistent ==
    /\ (call.op \in {"nvmlDeviceGetCount_v2", "nvmlDeviceGetCount"}
           /\ call.gate > 0 /\ ~call.fail.null) =>
          /\ call.ret = NVML_SUCCESS
          /\ call.out = 8
    /\ (call.op \in {"nvmlDeviceGetHandleByIndex_v2", "nvmlDeviceGetHandleByIndex"}
           /\ call.gate > 0 /\ ~call.fail.null) =>
          IF call.args.index \in 0..7
          THEN /\ call.ret = NVML_SUCCESS
               /\ nvmlDeviceGetIndex(call.out, Ptr(Garbage)).ret = NVML_SUCCESS
               /\ nvmlDeviceGetIndex(call.out, Ptr(Garbage)).out = call.args.index
               /\ nvmlDeviceGetMinorNumber(call.out, Ptr(Garbage)).ret = NVML_SUCCESS
               /\ nvmlDeviceGetMinorNumber(call.out, Ptr(Garbage)).out = call.args.index
          ELSE /\ call.ret = NVML_ERROR_INVALID_ARGUMENT
               /\ call.out = call.pre

\* C7 happens: the last index was looked up after an init, a shutdown and two
\* more inits had left the counter at 2
C7_Witness ==
    /\ call.op = "nvmlDeviceGetHandleByIndex_v2"
    /\ call.gate = 2
    /\ call.args.index = 7
    /\ call.ret = NVML_SUCCESS
    /\ call.out = U64(0, 8)

\* the device a lookup string names, 8 if it names none
RECURSIVE NamedBy(_, _)
NamedBy(text, i) ==
    IF i = 8 THEN 8
    ELSE IF text \in {mock_devices[i].uuid, mock_devices[i].pci_bus_id,
                      mock_devices[i].pci_bus_id_legacy} THEN i
    ELSE NamedBy(text, i + 1)

\* C8 as stated: with a session, nvmlDeviceGetHandleByUUID gives handle i + 1
\* for the uuid of device i, and nvmlDeviceGetHandleByPciBusId gives handle
\* i + 1 for the bus id of device i in its modern form (8-digit domain) and
\* in its legacy form (4-digit domain); a string that names no device gives
\* NOT_FOUND; a null string or null output pointer gives INVALID_ARGUMENT.
C8_LookupRoundTrip ==
    (call.op \in {"nvmlDeviceGetHandleByUUID", "nvmlDeviceGetHandleByPciBusId_v2",
                  "nvmlDeviceGetHandleByPciBusId"} /\ call.gate > 0) =>
        IF call.fail.null
        THEN call.ret = NVML_ERROR_INVALID_ARGUMENT /\ call.out = call.pre
        ELSE LET text == IF call.op = "nvmlDeviceGetHandleByUUID"
                         THEN call.args.uuid.mem ELSE call.args.pciBusId.mem
                 i == NamedBy(text, 0)
             IN IF i < 8
                THEN call.ret = NVML_SUCCESS /\ call.out = U64(0, i + 1)
                ELSE call.ret = NVML_ERROR_NOT_FOUND /\ call.out = call.pre

\* the failing call of C8: the second device looked up by its modern bus id
\* is not found
C8_Witness ==
    /\ call.op = "nvmlDeviceGetHandleByPciBusId_v2"
    /\ call.gate > 0
    /\ ~call.fail.null
    /\ call.args.pciBusId.mem = "00000000:01:00.0"
    /\ call.ret = NVML_ERROR_NOT_FOUND

\* the caller's nvmlMemory_v2_t with its version field unset
UnsetMemory_v2 ==
    Ptr([ version |-> 0, total |-> U64(Garbage, Garbage),
          reserved |-> U64(Garbage, Garbage), free |-> U64(Garbage, Garbage),
          used |-> U64(Garbage, Garbage) ])

\* C9: for each of the 8 devices both memory queries succeed and report
\* total = free + used, used = 0 and total = 42949672960 (10 * 2^32); the v1
\* and the v2 query report the same total, free and used for one handle; and
\* v2 writes reserved = 0 over what the caller had there.
C9_MemoryInvariant ==
    /\ (call.op = "nvmlDeviceGetMemoryInfo" /\ call.gate > 0
           /\ ~call.fail.null /\ ~call.fail.handle) =>
          /\ call.ret = NVML_SUCCESS
          /\ call.out.total = Add64(call.out.free, call.out.used)
          /\ call.out.used = U64(0, 0)
          /\ call.out.total = U64(10, 0)
          /\ LET v2 == nvmlDeviceGetMemoryInfo_v2(call.args.device, UnsetMemory_v2) IN
                /\ v2.ret = NVML_SUCCESS
                /\ v2.out.total = call.out.total
                /\ v2.out.free = call.out.free
                /\ v2.out.used = call.out.used
    /\ (call.op = "nvmlDeviceGetMemoryInfo_v2" /\ call.gate > 0
           /\ ~call.fail.null /\ ~call.fail.handle /\ ~call.fail.domain) =>
          /\ call.ret = NVML_SUCCESS
          /\ call.out.total = Add64(call.out.free, call.out.used)
          /\ call.out.used = U64(0, 0)
          /\ call.out.total = U64(10, 0)
          /\ call.out.reserved = U64(0, 0)
          /\ LET v1 == nvmlDeviceGetMemoryInfo(call.args.device, Ptr(call.pre)) IN
                /\ v1.ret = NVML_SUCCESS
                /\ v1.out.total = call.out.total
                /\ v1.out.free = call.out.free
                /\ v1.out.used = call.out.used

\* C9 happens: the v2 query on the last device overwrote a non-zero reserved
C9_Witness ==
    /\ call.op = "nvmlDeviceGetMemoryInfo_v2"
    /\ call.gate > 0
    /\ call.args.device = U64(0, 8)
    /\ call.ret = NVML_SUCCESS
    /\ call.pre.reserved # U64(0, 0)
    /\ call.out.reserved = U64(0, 0)

\* C10: with a session, a non-null struct and a valid handle,
\* nvmlDeviceGetMemoryInfo_v2 succeeds iff the version field the caller left
\* in the struct is 0 or the v2 tag; any other version yields
\* INVALID_ARGUMENT and leaves every field as it was; on success the version
\* field holds the v2 tag.
C10_VersionGuard ==
    (call.op = "nvmlDeviceGetMemoryInfo_v2" /\ call.gate > 0
        /\ ~call.fail.null /\ ~call.fail.handle) =>
        IF call.pre.version \in {0, nvmlMemory_v2}
        THEN /\ call.ret = NVML_SUCCESS
             /\ call.out.version = nvmlMemory_v2
        ELSE /\ call.ret = NVML_ERROR_INVALID_ARGUMENT
             /\ call.out = call.pre

\* C10 happens: a struct tagged with the bare version number 2 was refused
\* for a valid handle, and one with the version unset was accepted
C10_Witness ==
    /\ call.op = "nvmlDeviceGetMemoryInfo_v2"
    /\ call.gate > 0
    /\ call.args.device \in ValidHandles
    /\ ~call.fail.null
    /\ call.pre.version = 2
    /\ call.ret = NVML_ERROR_INVALID_ARGUMENT
    /\ call.out = call.pre

\* the string getters: those of a device and those of the system
DeviceStringGetters ==
    {"nvmlDeviceGetName", "nvmlDeviceGetUUID", "nvmlDeviceGetSerial",
     "nvmlDeviceGetBoardPartNumber"}
SystemStringGetters ==
    {"nvmlSystemGetDriverVersion", "nvmlSystemGetNVMLVersion",
     "nvmlSystemGetDriverBranch"}

\* the value a string getter is to return for the arguments of call c
ValueOf(c) ==
    CASE c.op = "nvmlDeviceGetName" -> DeviceOf(c.args.device).name
      [] c.op = "nvmlDeviceGetUUID" -> DeviceOf(c.args.device).uuid
      [] c.op = "nvmlDeviceGetSerial" -> DeviceOf(c.args.device).serial
      [] c.op = "nvmlDeviceGetBoardPartNumber" -> "699-21001-0000-000"
      [] c.op = "nvmlSystemGetDriverVersion" -> "550.54.15"
      [] c.op = "nvmlSystemGetNVMLVersion" -> "12.550.54"
      [] c.op = "nvmlSystemGetDriverBranch" -> "r550_00"

\* the last call was a string getter with a session, a buffer and, if it
\* takes one, the handle of a device
StringGetterCall ==
    /\ call.op \in DeviceStringGetters \cup SystemStringGetters
    /\ call.gate > 0
    /\ ~call.args.ptr.null
    /\ call.op \in DeviceStringGetters => call.args.device \in ValidHandles

\* C11: a string getter given a buffer of exactly strlen(value) + 1 bytes
\* returns SUCCESS and leaves the whole value, terminated, in the buffer;
\* given one byte less it returns INSUFFICIENT_SIZE and leaves the buffer as
\* it was.
C11_StringBufferBoundary ==
    StringGetterCall =>
        /\ call.args.length = Len(ValueOf(call)) + 1 =>
              /\ call.ret = NVML_SUCCESS
              /\ call.out = ValueOf(call)
              /\ Len(call.out) + 1 <= call.args.length
        /\ call.args.length = Len(ValueOf(call)) =>
              /\ call.ret = NVML_ERROR_INSUFFICIENT_SIZE
              /\ call.out = call.pre

\* C11 happens: the UUID of the last device was asked for with a buffer one
\* byte too short and refused
C11_Witness ==
    /\ call.op = "nvmlDeviceGetUUID"
    /\ call.gate > 0
    /\ call.args.device = U64(0, 8)
    /\ ~call.args.ptr.null
    /\ call.args.length = 40
    /\ call.ret = NVML_ERROR_INSUFFICIENT_SIZE
    /\ call.out = "garbage"

\* C12 as stated: a string getter given a non-null buffer of any capacity c
\* with 0 <= c < strlen(value) + 1, c = 0 included, returns
\* INSUFFICIENT_SIZE and leaves the buffer as it was.
C12_AlwaysInsufficientSize ==
    (StringGetterCall /\ call.args.length < Len(ValueOf(call)) + 1) =>
        /\ call.ret = NVML_ERROR_INSUFFICIENT_SIZE
        /\ call.out = call.pre

\* the failing call of C12: the name of the first device asked for with a
\* non-null buffer of capacity 0 is answered INVALID_ARGUMENT
C12_Witness ==
    /\ call.op = "nvmlDeviceGetName"
    /\ call.gate > 0
    /\ call.args.device = U64(0, 1)
    /\ ~call.args.ptr.null
    /\ call.args.length = 0
    /\ call.ret = NVML_ERROR_INVALID_ARGUMENT

\* the operations that take a count by pointer and an array of that size
CountedOps == {"nvmlDeviceGetTopologyNearestGpus", "nvmlSystemGetTopologyGpuSet"}

\* the operations that take a buffer and its length by value
SizedByValueOps ==
    DeviceStringGetters \cup SystemStringGetters \cup {"nvmlSystemGetProcessName"}

\* the caller's size field after call c: *count for the counted operations;
\* the caller's own length for the others, which receive a copy of it
SizeFieldAfter(c) ==
    IF c.op \in CountedOps THEN c.out[1] ELSE c.args.length

\* the size that makes call c succeed
RequiredSize(c) ==
    CASE c.op = "nvmlDeviceGetTopologyNearestGpus" -> 7
      [] c.op = "nvmlSystemGetTopologyGpuSet" -> 8
      [] c.op = "nvmlSystemGetProcessName" ->
            Len(AfterLastSlash(c.args.exe_path, Len(c.args.exe_path))) + 1
      [] OTHER -> Len(ValueOf(c)) + 1

\* what call c left of the result data: the array of a counted operation,
\* the buffer of the others
DataOf(c, memory) == IF c.op \in CountedOps THEN memory[2] ELSE memory

\* C13 as stated: whenever an operation returns INSUFFICIENT_SIZE the
\* caller's size field holds the size that makes the call succeed, and no
\* result data has been written.
C13_AlwaysWriteBack ==
    call.ret = NVML_ERROR_INSUFFICIENT_SIZE =>
        /\ SizeFieldAfter(call) = RequiredSize(call)
        /\ DataOf(call, call.out) = DataOf(call, call.pre)

\* the same call as c made again with the count it wrote back and an array
\* of that many elements
Retry(c) ==
    LET count == Ptr(c.out[1])
        deviceArray == ArrayPtr(count, TRUE)
    IN IF c.op = "nvmlDeviceGetTopologyNearestGpus"
       THEN nvmlDeviceGetTopologyNearestGpus(c.args.device, c.args.level,
                                             count, deviceArray)
       ELSE nvmlSystemGetTopologyGpuSet(c.args.cpuNumber, count, deviceArray)

\* C13, amended: INSUFFICIENT_SIZE comes only from the counted operations,
\* the string getters and nvmlSystemGetProcessName, and never with result
\* data written. A counted operation that returns it has set *count to the
\* required count (7 nearest GPUs, 8 GPUs of a CPU), and the call made again
\* with that count succeeds. The others take the length by value: they write
\* nothing at all, and the caller's length stays below the required size.
C13_SizeWriteBack ==
    call.ret = NVML_ERROR_INSUFFICIENT_SIZE =>
        /\ call.op \in CountedOps \cup SizedByValueOps
        /\ call.by = "size"
        /\ DataOf(call, call.out) = DataOf(call, call.pre)
        /\ call.op \in CountedOps =>
              /\ call.pre[1] < RequiredSize(call)
              /\ call.out[1] = RequiredSize(call)
              /\ Retry(call).ret = NVML_SUCCESS
        /\ call.op \in SizedByValueOps =>
              /\ call.out = call.pre
              /\ SizeFieldAfter(call) < RequiredSize(call)

\* C13 happens: the GPUs of a CPU were asked for with room for 6 and the
\* count came back as 8 with the array as it was
C13_Witness ==
    /\ call.op = "nvmlSystemGetTopologyGpuSet"
    /\ call.gate > 0
    /\ call.ret = NVML_ERROR_INSUFFICIENT_SIZE
    /\ call.pre[1] = 6
    /\ Len(call.pre[2]) = 6
    /\ call.out = <<8, call.pre[2]>>

\* the last call asked for the nearest GPUs of a device, with a session and
\* a count
NearestGpusCall ==
    /\ call.op = "nvmlDeviceGetTopologyNearestGpus"
    /\ call.gate > 0
    /\ ~call.args.count.null
    /\ call.args.device \in ValidHandles

\* C14: for every device d and level, (a) with a null array the call sets
\* *count = 7 and returns SUCCESS, and the call made again with that count
\* and an array of 7 succeeds; (b) with an array and *count < 7 it sets
\* *count = 7, returns INSUFFICIENT_SIZE and writes no element; (c) with an
\* array and *count >= 7 it returns SUCCESS, sets *count = 7 and writes
\* exactly 7 handles: valid, in ascending index order (so pairwise
\* distinct), none of them d's own.
C14_NearestTwoPhase ==
    NearestGpusCall =>
        IF call.args.deviceArray.null THEN
            /\ call.ret = NVML_SUCCESS
            /\ call.out[1] = 7
            /\ Retry(call).ret = NVML_SUCCESS
            /\ Retry(call).out[1] = 7
        ELSE IF call.pre[1] < 7 THEN
            /\ call.ret = NVML_ERROR_INSUFFICIENT_SIZE
            /\ call.out[1] = 7
            /\ call.out[2] = call.pre[2]
        ELSE
            /\ call.ret = NVML_SUCCESS
            /\ call.out[1] = 7
            /\ Len(call.out[2]) = Len(call.pre[2])
            /\ \A k \in 1..7 :
                  /\ call.out[2][k] \in ValidHandles
                  /\ call.out[2][k] # call.args.device
            /\ \A k \in 1..6 :
                  device_handle_to_index(call.out[2][k])
                      < device_handle_to_index(call.out[2][k + 1])
            /\ \A k \in 8..Len(call.out[2]) : call.out[2][k] = call.pre[2][k]

\* C14 happens: the fourth device asked with room for 9 got the 7 others,
\* the fifth device in the fourth place, and the last two places untouched
C14_Witness ==
    /\ call.op = "nvmlDeviceGetTopologyNearestGpus"
    /\ call.gate > 0
    /\ call.ret = NVML_SUCCESS
    /\ call.args.device = U64(0, 4)
    /\ ~call.args.deviceArray.null
    /\ call.pre[1] = 9
    /\ call.out[1] = 7
    /\ call.out[2][3] = U64(0, 3)
    /\ call.out[2][4] = U64(0, 5)
    /\ call.out[2][8] = U64(Garbage, Garbage)

\* the NVLink queries
NvLinkRemoteOps ==
    {"nvmlDeviceGetNvLinkRemotePciInfo_v2", "nvmlDeviceGetNvLinkRemotePciInfo"}

\* the last call was an NVLink query with a session, the handle of a device
\* and an output object
NvLinkCall ==
    /\ call.op \in NvLinkRemoteOps \cup {"nvmlDeviceGetNvLinkState"}
    /\ call.gate > 0
    /\ call.args.device \in ValidHandles
    /\ ~call.args.ptr.null

\* C15: for every device, the NVLink state query and the remote PCI query
\* accept exactly the links 0..11: for link < 12 they return SUCCESS and the
\* state written is ENABLED; for link >= 12 (12, 13, (unsigned)-1) they
\* return INVALID_ARGUMENT and leave the output as it was.
C15_NvLinkDomain ==
    NvLinkCall =>
        IF call.args.link \in 0..11
        THEN /\ call.ret = NVML_SUCCESS
             /\ call.op = "nvmlDeviceGetNvLinkState" =>
                   call.out = "NVML_FEATURE_ENABLED"
        ELSE /\ call.ret = NVML_ERROR_INVALID_ARGUMENT
             /\ call.out = call.pre

\* C15 happens: link 12 of the last device was refused by the state query
C15_Witness ==
    /\ call.op = "nvmlDeviceGetNvLinkState"
    /\ call.gate > 0
    /\ call.args.device = U64(0, 8)
    /\ ~call.args.ptr.null
    /\ call.args.link = 12
    /\ call.ret = NVML_ERROR_INVALID_ARGUMENT
    /\ call.out = call.pre

\* the index of the device whose bus number a PCI record carries; device i
\* of the fixture is on bus i
DeviceOnBus(bus) == CHOOSE i \in 0..7 : mock_devices[i].pci_bus = bus

\* C16: for device index d in 0..7 and link l in 0..11 the remote index is
\* (d + l/2 + 1) mod 8: a valid index, never d; links 2k and 2k+1 have the
\* same remote and the six pairs of links of one device have six different
\* remotes; and the remote PCI query reports that device for every handle
\* and link, whatever the counter is and whatever calls came before.
C16_RemoteDerivation ==
    /\ \A d \in 0..7, l \in 0..11 :
          /\ remote_idx(d, l) = (d + (l \div 2) + 1) % 8
          /\ is_valid_device_index(remote_idx(d, l))
          /\ remote_idx(d, l) # d
    /\ \A d \in 0..7, k \in 0..5 :
          remote_idx(d, 2 * k) = remote_idx(d, 2 * k + 1)
    /\ \A d \in 0..7 :
          Cardinality({remote_idx(d, 2 * k) : k \in 0..5}) = 6
    /\ \A i, j \in 0..7 : mock_devices[i].pci_bus = mock_devices[j].pci_bus => i = j
    /\ (NvLinkCall /\ call.op \in NvLinkRemoteOps /\ call.args.link \in 0..11) =>
          LET d == call.args.device.lo - 1 IN
             /\ call.ret = NVML_SUCCESS
             /\ DeviceOnBus(call.out.bus) = (d + (call.args.link \div 2) + 1) % 8
             /\ DeviceOnBus(call.out.bus) # d

\* C16 happens: link 11 of the sixth device, asked after an init, a shutdown
\* and two more inits, leads to the fourth device (5 + 5 + 1 = 11 mod 8 = 3)
C16_Witness ==
    /\ call.op = "nvmlDeviceGetNvLinkRemotePciInfo_v2"
    /\ call.gate = 2
    /\ call.args.device = U64(0, 6)
    /\ call.args.link = 11
    /\ call.ret = NVML_SUCCESS
    /\ call.out.bus = 3

\* the PCI queries of a device
PciInfoOps == {"nvmlDeviceGetPciInfo_v3", "nvmlDeviceGetPciInfo_v2", "nvmlDeviceGetPciInfo"}

\* C17 as stated: for every device d and link l in 0..11 the nvmlPciInfo_t
\* that the remote PCI query writes equals, field for field (busId,
\* busIdLegacy, domain, bus, device, pciDeviceId, pciSubSystemId), the one
\* that nvmlDeviceGetPciInfo_v3 writes for the handle of device
\* (d + l/2 + 1) mod 8; and nvmlDeviceGetPciInfo, _v2 and _v3 write the same
\* for one handle.
C17_RemotePciConsistent ==
    /\ (NvLinkCall /\ call.op \in NvLinkRemoteOps /\ call.args.link \in 0..11) =>
          LET d == call.args.device.lo - 1
              remote == HandleOfIndex((d + (call.args.link \div 2) + 1) % 8)
              direct == nvmlDeviceGetPciInfo_v3(remote, Ptr(call.pre))
          IN /\ call.ret = NVML_SUCCESS
             /\ direct.ret = NVML_SUCCESS
             /\ call.out.busId = direct.out.busId
             /\ call.out.busIdLegacy = direct.out.busIdLegacy
             /\ call.out.domain = direct.out.domain
             /\ call.out.bus = direct.out.bus
             /\ call.out.device = direct.out.device
             /\ call.out.pciDeviceId = direct.out.pciDeviceId
             /\ call.out.pciSubSystemId = direct.out.pciSubSystemId
    /\ (call.op \in PciInfoOps /\ call.gate > 0 /\ ~call.args.ptr.null
           /\ call.args.device \in ValidHandles) =>
          /\ call.ret = NVML_SUCCESS
          /\ call.out = nvmlDeviceGetPciInfo_v3(call.args.device, call.args.ptr).out
          /\ call.out = nvmlDeviceGetPciInfo_v2(call.args.device, call.args.ptr).out
          /\ call.out = nvmlDeviceGetPciInfo(call.args.device, call.args.ptr).out

\* the failing call of C17: link 0 of the first device leads to the second
\* device, whose own PCI query gives the bus id "0000:01:00.0"; the remote
\* query agrees on every other field and gives another bus id
C17_Witness ==
    /\ call.op = "nvmlDeviceGetNvLinkRemotePciInfo_v2"
    /\ call.gate > 0
    /\ call.args.device = U64(0, 1)
    /\ call.args.link = 0
    /\ call.ret = NVML_SUCCESS
    /\ call.out.bus = 1
    /\ call.out.busIdLegacy = "0000:01:00.0"
    /\ nvmlDeviceGetPciInfo_v3(U64(0, 2), Ptr(call.pre)).out.busId = "0000:01:00.0"
    /\ call.out.busId # "0000:01:00.0"
    /\ SubSeq(call.out.busId, 1, 16) = "00000000:01:00.0"

\* the last call was a query about a pair of devices, with a session and an
\* output object
PairCall ==
    /\ call.op \in {"nvmlDeviceGetP2PStatus", "nvmlDeviceGetTopologyCommonAncestor"}
    /\ call.gate > 0
    /\ ~call.args.ptr.null

\* the same query with the two handles exchanged
Swapped(c) ==
    IF c.op = "nvmlDeviceGetP2PStatus"
    THEN nvmlDeviceGetP2PStatus(c.args.device2, c.args.device1,
                                c.args.p2pIndex, c.args.ptr)
    ELSE nvmlDeviceGetTopologyCommonAncestor(c.args.device2, c.args.device1,
                                             c.args.ptr)

\* C18: for two valid handles A and B, A = B included, nvmlDeviceGetP2PStatus
\* returns SUCCESS with status OK for every capability index and
\* nvmlDeviceGetTopologyCommonAncestor returns SUCCESS with level SYSTEM; if
\* either handle is invalid both return INVALID_ARGUMENT and leave the
\* output as it was; and the answer for (B, A) is the answer for (A, B).
C18_PairwiseTopology ==
    PairCall =>
        /\ IF call.args.device1 \in ValidHandles /\ call.args.device2 \in ValidHandles
           THEN /\ call.ret = NVML_SUCCESS
                /\ call.out = IF call.op = "nvmlDeviceGetP2PStatus"
                               THEN "NVML_P2P_STATUS_OK"
                               ELSE "NVML_TOPOLOGY_SYSTEM"
           ELSE /\ call.ret = NVML_ERROR_INVALID_ARGUMENT
                /\ call.out = call.pre
        /\ Swapped(call).ret = call.ret
        /\ Swapped(call).out = call.out

\* C18 happens: the P2P status of the third device and the invalid handle 9
\* was refused
C18_Witness ==
    /\ call.op = "nvmlDeviceGetP2PStatus"
    /\ call.gate > 0
    /\ ~call.args.ptr.null
    /\ call.args.device1 = U64(0, 3)
    /\ call.args.device2 = U64(0, 9)
    /\ call.ret = NVML_ERROR_INVALID_ARGUMENT
    /\ call.out = call.pre

\* the mutators
Mutators == {"nvmlDeviceSetPersistenceMode", "nvmlDeviceSetComputeMode"}

\* the modes of each mutator's enumeration
ModeDomain(op) ==
    IF op = "nvmlDeviceSetPersistenceMode"
    THEN {"NVML_FEATURE_DISABLED", "NVML_FEATURE_ENABLED"}
    ELSE {"NVML_COMPUTEMODE_DEFAULT", "NVML_COMPUTEMODE_EXCLUSIVE_THREAD",
          "NVML_COMPUTEMODE_PROHIBITED", "NVML_COMPUTEMODE_EXCLUSIVE_PROCESS"}

\* a mutator called with a session returns INVALID_ARGUMENT for an invalid
\* handle or a mode outside its enumeration, SUCCESS otherwise
C19_Validated ==
    (call.op \in Mutators /\ call.gate > 0) =>
        IF call.args.device \in ValidHandles /\ call.args.mode \in ModeDomain(call.op)
        THEN call.ret = NVML_SUCCESS
        ELSE call.ret = NVML_ERROR_INVALID_ARGUMENT

\* what the getters of device state give for a handle
Getters(device) ==
    << nvmlDeviceGetPersistenceMode(device, Ptr(Garbage)),
       nvmlDeviceGetDisplayMode(device, Ptr(Garbage)),
       nvmlDeviceGetDisplayActive(device, Ptr(Garbage)),
       nvmlDeviceGetBrand(device, Ptr(Garbage)),
       nvmlDeviceGetMinorNumber(device, Ptr(Garbage)),
       nvmlDeviceGetMemoryInfo(device, Ptr([total |-> U64(0, 0), free |-> U64(0, 0),
                                            used |-> U64(0, 0)])) >>

\* a step that is a call of a mutator, successful or failed, leaves what
\* every getter gives for every handle as it was
C19_Frame ==
    (call.op = "none" /\ call'.op \in Mutators) =>
        \A device \in Handles : Getters(device)' = Getters(device)

\* C19 as stated: the mutators validate the handle and the mode, and no
\* call of a mutator changes what any getter returns for any device.
C19_ValidatedNoOps == [] C19_Validated /\ [][C19_Frame]_vars

\* the failing call of C19: nvmlDeviceSetComputeMode accepted the mode 99
\* for the first device
C19_Witness ==
    /\ call.op = "nvmlDeviceSetComputeMode"
    /\ call.gate > 0
    /\ call.args.device = U64(0, 1)
    /\ call.args.mode = "(nvmlComputeMode_t)99"
    /\ call.ret = NVML_SUCCESS

\* the MIG operations that the mock does not support
MigUnsupportedOps ==
    {"nvmlDeviceGetMigMode", "nvmlDeviceGetGpuInstances",
     "nvmlDeviceGetGpuInstancePossiblePlacements_v2",
     "nvmlDeviceGetGpuInstancePossiblePlacements",
     "nvmlDeviceCreateGpuInstance", "nvmlGpuInstanceDestroy",
     "nvmlComputeInstanceGetInfo_v2", "nvmlComputeInstanceGetInfo"}

\* C20: with a session, a valid handle and non-null outputs, the MIG mode,
\* GPU instance and compute instance operations return NOT_SUPPORTED for
\* every device, and nvmlDeviceGetMaxMigDeviceCount returns SUCCESS with
\* count 0; no call of the first family returns SUCCESS and no call of
\* nvmlDeviceGetMaxMigDeviceCount returns NOT_SUPPORTED, whatever its
\* arguments.
C20_MigAsymmetry ==
    /\ (call.op \in MigUnsupportedOps /\ call.gate > 0
           /\ ~call.fail.null /\ ~call.fail.handle) =>
          call.ret = NVML_ERROR_NOT_SUPPORTED
    /\ (call.op = "nvmlDeviceGetMaxMigDeviceCount" /\ call.gate > 0
           /\ ~call.fail.null /\ ~call.fail.handle) =>
          /\ call.ret = NVML_SUCCESS
          /\ call.out = 0
    /\ call.op \in MigUnsupportedOps => call.ret # NVML_SUCCESS
    /\ call.op = "nvmlDeviceGetMaxMigDeviceCount" =>
          call.ret # NVML_ERROR_NOT_SUPPORTED

\* C20 happens: the last device was asked for its maximum number of MIG
\* devices and answered SUCCESS with 0
C20_Witness ==
    /\ call.op = "nvmlDeviceGetMaxMigDeviceCount"
    /\ call.gate > 0
    /\ call.args.device = U64(0, 8)
    /\ call.pre = Garbage
    /\ call.ret = NVML_SUCCESS
    /\ call.out = 0

\* the operations that wait on an event set
EventWaitOps == {"nvmlEventSetWait_v2", "nvmlEventSetWait"}

\* C21: with a session, nvmlEventSetCreate given an object succeeds and
\* writes a non-null handle; nvmlDeviceRegisterEvents on a device returns
\* SUCCESS for the mask 0 and NOT_SUPPORTED for every other mask, and
\* nvmlDeviceGetSupportedEventTypes reports the mask 0 for that device;
\* nvmlEventSetWait given a data object returns TIMEOUT for every event set
\* and timeout, leaving the data as it was, after any calls before it, and
\* no call of it returns SUCCESS.
C21_EventProtocol ==
    /\ (call.op = "nvmlEventSetCreate" /\ call.gate > 0 /\ ~call.args.ptr.null) =>
          /\ call.ret = NVML_SUCCESS
          /\ call.out # U64(0, 0)
    /\ (call.op = "nvmlDeviceRegisterEvents" /\ call.gate > 0
           /\ call.args.device \in ValidHandles) =>
          /\ call.ret = IF call.args.eventTypes = U64(0, 0)
                         THEN NVML_SUCCESS ELSE NVML_ERROR_NOT_SUPPORTED
          /\ LET supported == nvmlDeviceGetSupportedEventTypes(
                                  call.args.device, Ptr(U64(Garbage, Garbage)))
             IN supported.ret = NVML_SUCCESS /\ supported.out = U64(0, 0)
    /\ (call.op \in EventWaitOps /\ call.gate > 0 /\ ~call.args.ptr.null) =>
          /\ call.ret = NVML_ERROR_TIMEOUT
          /\ call.out = call.pre
    /\ call.op \in EventWaitOps => call.ret # NVML_SUCCESS

\* C21 happens: a wait of 1000 ms on the event set that nvmlEventSetCreate
\* hands out timed out
C21_Witness ==
    /\ call.op = "nvmlEventSetWait_v2"
    /\ call.gate > 0
    /\ call.args.set = U64(0, 0 - 559038737)
    /\ call.args.timeoutms = 1000
    /\ ~call.args.ptr.null
    /\ call.ret = NVML_ERROR_TIMEOUT

\* C22: nvmlErrorString answers every code, enumerator or not, with a
\* non-empty string that depends on the code alone, with the counter at 0 as
\* with a session: "Success" for NVML_SUCCESS, and "Unknown error" for every
\* code without an entry of its own (24..29, 30, 999, 999999, -1); the
\* codes 1..23 have texts of their own.
C22_ErrorStringTotal ==
    call.op = "nvmlErrorString" =>
        /\ call.ret = NVML_SUCCESS
        /\ Len(call.out) > 0
        /\ call.args.result = NVML_SUCCESS => call.out = "Success"
        /\ call.args.result \notin 0..23 => call.out = "Unknown error"
        /\ call.args.result \in 1..23 =>
              call.out \notin {"Success", "Unknown error"}

\* C22 happens: with the counter at 0 the code 999999 was answered
\* "Unknown error"
C22_Witness ==
    /\ call.op = "nvmlErrorString"
    /\ call.gate = 0
    /\ call.args.result = 999999
    /\ call.out = "Unknown error"

\* strstr(text, part) != NULL
Contains(text, part) ==
    \E i \in 1..(Len(text) - Len(part) + 1) :
        SubSeq(text, i, i + Len(part) - 1) = part

\* C23 as stated: nvmlErrorString(NVML_ERROR_INVALID_ARGUMENT) is the
\* string "Invalid argument", and nvmlErrorString(NVML_ERROR_UNINITIALIZED)
\* contains "not first initialized".
C23_ErrorStringTexts ==
    call.op = "nvmlErrorString" =>
        /\ call.args.result = NVML_ERROR_INVALID_ARGUMENT =>
              call.out = "Invalid argument"
        /\ call.args.result = NVML_ERROR_UNINITIALIZED =>
              Contains(call.out, "not first initialized")

\* the failing call of C23: the text of NVML_ERROR_INVALID_ARGUMENT is
\* another one
C23_Witness ==
    /\ call.op = "nvmlErrorString"
    /\ call.args.result = NVML_ERROR_INVALID_ARGUMENT
    /\ call.out = "A supplied argument is invalid"


\* C24: with the session active, nvmlDeviceGetCudaComputeCapability on the
\* handle of any of the eight devices and two non-null pointers returns
\* SUCCESS and stores major 8 and minor 0; with a null major or a null minor
\* it returns INVALID_ARGUMENT.
C24_ComputeCapability ==
    ( /\ call.op = "nvmlDeviceGetCudaComputeCapability"
      /\ call.gate > 0
      /\ call.args.device \in {HandleOfIndex(i) : i \in 0..(DeviceCount - 1)} ) =>
        IF call.args.major.null \/ call.args.minor.null
        THEN call.ret = NVML_ERROR_INVALID_ARGUMENT
        ELSE call.ret = NVML_SUCCESS /\ call.out = <<8, 0>>

\* the handle of index 0, the one test_cuda_capability uses, reports 0.0
C24_Witness ==
    /\ call.op = "nvmlDeviceGetCudaComputeCapability"
    /\ call.gate > 0
    /\ call.args.device = HandleOfIndex(0)
    /\ ~call.args.major.null /\ ~call.args.minor.null
    /\ call.ret = NVML_SUCCESS
    /\ call.out = <<0, 0>>


\* the operations of nvml_init.c that write g_nvml_ref_count
InitOps == {"nvmlInit_v2", "nvmlInitWithFlags", "nvmlInit"}

SessionOps == InitOps \cup {"nvmlShutdown"}

\* a step that is a call: an init adds one to the counter, a shutdown takes
\* one off a positive counter, and every other operation, successful or
\* failed, leaves the counter, and so what every getter gives for every
\* handle, as it was
C25_Frame ==
    call'.op # "none" =>
        /\ call'.op \in InitOps => g_nvml_ref_count' = g_nvml_ref_count + 1
        /\ call'.op = "nvmlShutdown" =>
              g_nvml_ref_count' =
                  IF g_nvml_ref_count > 0 THEN g_nvml_ref_count - 1 ELSE 0
        /\ call'.op \notin SessionOps =>
              /\ g_nvml_ref_count' = g_nvml_ref_count
              /\ past_the_array' = past_the_array
              /\ \A device \in Handles : Getters(device)' = Getters(device)

\* C25: only the init operations and nvmlShutdown change the session
\* counter; every other exported operation, whether it succeeds or fails,
\* leaves the counter and the fixture unchanged.
C25_OnlySessionOpsWrite == [][C25_Frame]_vars

\* nvmlDeviceSetPersistenceMode has succeeded in an active session, and the
\* counter is what it was at the call
C25_Witness ==
    /\ call.op = "nvmlDeviceSetPersistenceMode"
    /\ call.gate > 0
    /\ call.ret = NVML_SUCCESS
    /\ g_nvml_ref_count = call.gate


\* the statements between pthread_mutex_lock and pthread_mutex_unlock:
\* nvml_init.c:34 (nvmlInit_v2), 53-59 (nvmlShutdown), 125 (nvml_is_initialized)
CriticalSection ==
    {"init_load", "init_store", "init_unlock",
     "shutdown_check", "shutdown_unlock_err", "shutdown_store", "shutdown_unlock",
     "query_read", "query_unlock"}

\* a thread holds the mutex exactly while it is at a statement of a critical
\* section: not before the lock, not after a return (successful or the
\* early return of nvmlShutdown), not in a query's body
C26_HeldOnlyInCriticalSection ==
    /\ g_init_mutex \in {0} \cup Threads
    /\ \A t \in Threads : (g_init_mutex = t) <=> (pc[t] \in CriticalSection)

\* a thread inside a call returns from it
C26_EveryCallReturns == \A t \in Threads : (pc[t] # "idle") ~> (pc[t] = "idle")

\* C26: the session mutex is held only during the read or read-modify-write
\* of the counter in nvmlInit_v2, nvmlShutdown and nvml_is_initialized, is
\* released on every return path and never held while a query body runs, and
\* under fair scheduling every call of every thread returns.
C26_LockDiscipline == [] C26_HeldOnlyInCriticalSection /\ C26_EveryCallReturns

\* a thread has returned UNINITIALIZED from nvmlShutdown and holds nothing,
\* while the other thread, which waited for the mutex, is in its query body
C26_Witness ==
    /\ pc[1] = "idle"
    /\ ret[1] = NVML_ERROR_UNINITIALIZED
    /\ pc[2] = "query_body"
    /\ g_init_mutex = 0
    /\ ncalls[1] = 1


\* the device handles a call was given
HandleArgs(c) ==
    {c.args[f] : f \in DOMAIN c.args \cap {"device", "device1", "device2"}}

\* C27: mock_devices is only indexed with 0..7: the codec gives an index in
\* 0..7 for a valid handle and the sentinel (unsigned)-1 for every other
\* one, the remote index of every device and link is in 0..7, and a call
\* given an invalid handle in an active session returns INVALID_ARGUMENT
\* before its body reads the table, leaving the caller's memory as it was.
C27_NoOutOfRangeAccess ==
    /\ \A h \in Handles :
          IF is_valid_device_handle(h)
          THEN device_handle_to_index(h) \in DOMAIN mock_devices
          ELSE device_handle_to_index(h) = InvalidIndex
    /\ DOMAIN mock_devices = 0..7
    /\ \A d \in DOMAIN mock_devices, l \in 0..(NvLinkCount - 1) :
          remote_idx(d, l) \in DOMAIN mock_devices
    /\ (call.op # "none" /\ call.gate > 0
           /\ \E h \in HandleArgs(call) : ~is_valid_device_handle(h)) =>
          /\ call.ret = NVML_ERROR_INVALID_ARGUMENT
          /\ call.by \in {"null", "handle", "domain"}
          /\ call.out = call.pre

\* the handle 9, one past the last device, was given to the remote PCI query
\* with a valid link and refused at the handle check
C27_Witness ==
    /\ call.op = "nvmlDeviceGetNvLinkRemotePciInfo_v2"
    /\ call.gate > 0
    /\ call.args.device = U64(0, 9)
    /\ call.args.link = 11
    /\ ~call.fail.null
    /\ call.ret = NVML_ERROR_INVALID_ARGUMENT
    /\ call.by = "handle"


\* the devices that the remote PCI query reports over the links 0..11 of
\* device a, as called after the call in hand
RemotesOf(a) ==
    { DeviceOnBus(nvmlDeviceGetNvLinkRemotePciInfo_v2(
                      HandleOfIndex(a), l, Ptr(call.pre)).out.bus) :
        l \in 0..(NvLinkCount - 1) }

\* C28 as stated: the NVLink adjacency is symmetric: if some link in 0..11
\* of device A has remote B, then some link in 0..11 of B has remote A, in
\* the index derivation and in what the remote PCI query reports.
C28_AdjacencySymmetric ==
    /\ \A a, b \in 0..7 :
          (\E l \in 0..(NvLinkCount - 1) : remote_idx(a, l) = b) =>
              (\E l \in 0..(NvLinkCount - 1) : remote_idx(b, l) = a)
    /\ (NvLinkCall /\ call.op \in NvLinkRemoteOps /\ call.ret = NVML_SUCCESS) =>
          device_handle_to_index(call.args.device)
              \in RemotesOf(DeviceOnBus(call.out.bus))

\* the failing call of C28: link 0 of the first device leads to the second
\* device, and the twelve links of the second device lead to the devices
\* 2..7 only
C28_Witness ==
    /\ call.op = "nvmlDeviceGetNvLinkRemotePciInfo_v2"
    /\ call.gate > 0
    /\ call.args.device = HandleOfIndex(0)
    /\ call.args.link = 0
    /\ call.ret = NVML_SUCCESS
    /\ DeviceOnBus(call.out.bus) = 1
    /\ RemotesOf(1) = 2..7
    /\ \A l \in 0..(NvLinkCount - 1) : remote_idx(1, l) # 0


\* a thread that has read the counter in nvml_is_initialized and still holds
\* the mutex has in its local whether the counter is positive now
C29_GateRead ==
    \A t \in Threads :
        pc[t] = "query_unlock" => (initialized[t] <=> g_nvml_ref_count > 0)

\* from the unlock to the return no step, of this thread or another, changes
\* what the thread read at the gate, and the query returns UNINITIALIZED if
\* it read a counter of 0 and SUCCESS if it read a positive one, whatever
\* the counter is by then
C29_ReturnsWhatItRead ==
    \A t \in Threads :
        /\ (pc[t] \in {"query_unlock", "query_body"}
               /\ pc'[t] \in {"query_unlock", "query_body"}) =>
              initialized'[t] = initialized[t]
        /\ (pc[t] = "query_body" /\ pc'[t] = "idle") =>
              ret'[t] = IF initialized[t] THEN NVML_SUCCESS
                        ELSE NVML_ERROR_UNINITIALIZED

\* C29: the gate check and the body of a query are separate steps: a query
\* that returns anything but UNINITIALIZED read a positive counter at its
\* gate check, a query that read 0 there returns UNINITIALIZED, and the
\* counter may have changed by the time the query returns.
C29_GateVersusShutdown == [] C29_GateRead /\ [][C29_ReturnsWhatItRead]_vars

\* thread 1 has passed the gate of a query and is in its body, about to
\* return SUCCESS, after a shutdown that has returned brought the counter
\* to 0
C29_Witness ==
    /\ pc[1] = "query_body"
    /\ initialized[1]
    /\ g_nvml_ref_count = 0
    /\ nShutOk = 1
    /\ pc[2] = "idle"
    /\ ret[2] = NVML_SUCCESS


\* the operations that write one handle, and those that write an array
HandleLookups ==
    {"nvmlDeviceGetHandleByIndex_v2", "nvmlDeviceGetHandleByIndex",
     "nvmlDeviceGetHandleByUUID", "nvmlDeviceGetHandleByPciBusId_v2",
     "nvmlDeviceGetHandleByPciBusId"}

HandleArrays == {"nvmlDeviceGetTopologyNearestGpus", "nvmlSystemGetTopologyGpuSet"}

\* the queries that identify the device of a handle
IdentityQueries == {"nvmlDeviceGetIndex", "nvmlDeviceGetUUID", "nvmlDeviceGetName"}

\* what an identity query gives for the device at a position of the table
IdentityOf(op, i) ==
    IF op = "nvmlDeviceGetIndex" THEN i
    ELSE IF op = "nvmlDeviceGetUUID" THEN mock_devices[i].uuid
    ELSE mock_devices[i].name

\* C30: every handle an operation writes, alone or in an array, is one of
\* 1..8; a handle of a device used while the counter is 0 gives
\* UNINITIALIZED, not INVALID_ARGUMENT; and used in any session, whatever
\* inits and shutdowns came before, it gives the index, UUID and name of the
\* device at its position.
C30_HandlesPositional ==
    /\ (call.op \in HandleLookups /\ call.ret = NVML_SUCCESS) =>
          call.out \in ValidHandles
    /\ (call.op \in HandleArrays /\ call.ret = NVML_SUCCESS
           /\ ~call.args.deviceArray.null) =>
          \A k \in 1..call.out[1] : call.out[2][k] \in ValidHandles
    /\ (call.op \in IdentityQueries /\ call.args.device \in ValidHandles) =>
          IF call.gate = 0
          THEN call.ret = NVML_ERROR_UNINITIALIZED
          ELSE (~call.fail.null /\ ~call.fail.size) =>
                  /\ call.ret = NVML_SUCCESS
                  /\ call.out = IdentityOf(call.op, call.args.device.lo - 1)

\* the handle of the last device, used with the counter at 0 and arguments
\* that are otherwise good, was answered UNINITIALIZED
C30_Witness ==
    /\ call.op = "nvmlDeviceGetUUID"
    /\ call.gate = 0
    /\ call.args.device = U64(0, 8)
    /\ ~call.fail.null /\ ~call.fail.size
    /\ call.ret = NVML_ERROR_UNINITIALIZED

====
